---- MODULE Spec2Model ----
(***************************************************************************)
(* Model of the COSE key / signature core of webauthn-rs-core              *)
(* (src/webauthn-rs-core/src/crypto.rs).                                   *)
(*                                                                         *)
(* Byte strings are kept abstractly as records [len, lz, id]: the length,  *)
(* the number of leading zero bytes and a tag that stands for the content. *)
(* An OpenSSL BigNum is [n, id]: the number of significant bytes and the   *)
(* same tag.  The crypto backend (OpenSSL) is an oracle over these tags.   *)
(***************************************************************************)
EXTENDS Integers, Sequences, FiniteSets, TLC

(***************************************************************************)
(* Bounds of the model.                                                    *)
(***************************************************************************)
\* number of distinct valid points sampled on each curve
NumPoints == 1
\* number of distinct messages (verification_data) sampled
NumMsgs == 2

(***************************************************************************)
(* Program constants.                                                      *)
(***************************************************************************)
\* COSE map labels
LabelKty == 1
LabelAlg == 3
\* COSEKeyTypeId
EC_OKP == 1
EC_EC2 == 2
EC_RSA == 3
\* lengths checked by the decoder
RsaNLen == 256
RsaELen == 3
OkpXLen == 32
\* ECDSACurve::coordinate_size
P256Size == 32
P384Size == 48
P521Size == 66

Curves == {"SECP256R1", "SECP384R1", "SECP521R1"}

COSEAlgorithms ==
  {"ES256", "ES384", "ES512", "RS256", "RS384", "RS512",
   "PS256", "PS384", "PS512", "EDDSA", "PinUvProtocol", "INSECURE_RS1"}

\* COSEAlgorithm::try_from(i128); "invalid" stands for the Err case
COSEAlgorithmTryFrom(i) ==
  CASE i = -7 -> "ES256"
    [] i = -35 -> "ES384"
    [] i = -36 -> "ES512"
    [] i = -257 -> "RS256"
    [] i = -258 -> "RS384"
    [] i = -259 -> "RS512"
    [] i = -37 -> "PS256"
    [] i = -38 -> "PS384"
    [] i = -39 -> "PS512"
    [] i = -8 -> "EDDSA"
    [] i = -25 -> "PinUvProtocol"
    [] i = -65535 -> "INSECURE_RS1"
    [] OTHER -> "invalid"

AlgIds == {-7, -35, -36, -257, -258, -259, -37, -38, -39, -8, -25, -65535}

\* ECDSACurve::try_from(i128)
ECDSACurveTryFrom(i) ==
  CASE i = 1 -> "SECP256R1"
    [] i = 2 -> "SECP384R1"
    [] i = 3 -> "SECP521R1"
    [] OTHER -> "invalid"

\* EDDSACurve::try_from(i128)
EDDSACurveTryFrom(i) ==
  CASE i = 6 -> "ED25519"
    [] i = 7 -> "ED448"
    [] OTHER -> "invalid"

\* ECDSACurve::coordinate_size
coordinate_size(curve) ==
  CASE curve = "SECP256R1" -> P256Size
    [] curve = "SECP384R1" -> P384Size
    [] curve = "SECP521R1" -> P521Size

(***************************************************************************)
(* Values: byte strings, big numbers, CBOR values, results.                *)
(***************************************************************************)
Bytes(len, lz, id) == [len |-> len, lz |-> lz, id |-> id]

\* bn::BigNum::from_slice: big-endian, leading zero bytes carry no value
BigNumFromSlice(b) == [n |-> b.len - b.lz, id |-> b.id]

\* BigNumRef::num_bytes
NumBytes(bn) == bn.n

\* BigNumRef::to_vec: minimal big-endian encoding, no leading zero byte
BigNumToVec(bn) == Bytes(bn.n, 0, bn.id)

Absent == [t |-> "absent"]
CInt(i) == [t |-> "int", v |-> i]
CBytes(b) == [t |-> "bytes", v |-> b]
CText == [t |-> "text"]

NoKey == [kind |-> "none"]
NoCose == [type_ |-> "none", key |-> NoKey]

Ok(v) == [tag |-> "Ok", err |-> "", val |-> v]
Err(e) == [tag |-> "Err", err |-> e, val |-> NoCose]

VOk(b) == [tag |-> "Ok", err |-> "", b |-> b]
VErr(e) == [tag |-> "Err", err |-> e, b |-> FALSE]

\* serde_cbor_2::Value::Map lookup by integer label
MapGet(m, label) ==
  CASE label = 1 -> m.l1
    [] label = 3 -> m.l3
    [] label = -1 -> m.n1
    [] label = -2 -> m.n2
    [] label = -3 -> m.n3

(***************************************************************************)
(* The crypto backend (OpenSSL), as an oracle over the content tags.       *)
(* A tag <<nid, k>> stands for the k-th sampled point of the group nid; a  *)
(* coordinate of a point of a group never has more significant bytes than  *)
(* the group's field.                                                      *)
(***************************************************************************)
OffCurve == <<"off", 0>>
RsaTag == <<"rsa", 0>>

FieldBytes(nid) ==
  CASE nid = "X9_62_PRIME256V1" -> P256Size
    [] nid = "SECP384R1" -> P384Size
    [] nid = "SECP521R1" -> P521Size
    [] OTHER -> P256Size

\* ec::EcKey::from_public_key_affine_coordinates followed by check_key
BackendEcKeyOk(nid, xbn, ybn) ==
  /\ xbn.id = ybn.id
  /\ xbn.id[1] = nid
  /\ xbn.n <= FieldBytes(nid)
  /\ ybn.n <= FieldBytes(nid)

\* rsa::Rsa::from_public_components: takes ownership of any two numbers
BackendRsaOk(nbn, ebn) == TRUE

\* ECDSACurve::to_openssl_nid
to_openssl_nid(curve) ==
  CASE curve = "SECP256R1" -> "X9_62_PRIME256V1"
    [] curve = "SECP384R1" -> "SECP384R1"
    [] curve = "SECP521R1" -> "SECP521R1"

\* impl TryFrom<nid::Nid> for ECDSACurve
ECDSACurveFromNid(nid) ==
  CASE nid = "X9_62_PRIME256V1" -> "SECP256R1"
    [] nid = "SECP384R1" -> "SECP384R1"
    [] nid = "SECP521R1" -> "SECP521R1"
    [] OTHER -> "invalid"

\* validate with the OKP arm answering Ok(()) instead of COSEKeyEDUnsupported
validate_AcceptsOkp(k) ==
  CASE k.key.kind = "EC_EC2" ->
         IF BackendEcKeyOk(to_openssl_nid(k.key.curve),
                           BigNumFromSlice(k.key.x), BigNumFromSlice(k.key.y))
         THEN Ok(NoCose) ELSE Err("OpenSSLError")
    [] k.key.kind = "RSA" ->
         IF BackendRsaOk(BigNumFromSlice(k.key.n), BigNumFromSlice(k.key.e))
         THEN Ok(NoCose) ELSE Err("OpenSSLError")
    [] k.key.kind = "EC_OKP" -> Ok(NoCose)

(***************************************************************************)
(* COSEKey::validate                                                       *)
(***************************************************************************)
validate(k) ==
  CASE k.key.kind = "EC_EC2" ->
         IF BackendEcKeyOk(to_openssl_nid(k.key.curve),
                           BigNumFromSlice(k.key.x), BigNumFromSlice(k.key.y))
         THEN Ok(NoCose) ELSE Err("OpenSSLError")
    [] k.key.kind = "RSA" ->
         IF BackendRsaOk(BigNumFromSlice(k.key.n), BigNumFromSlice(k.key.e))
         THEN Ok(NoCose) ELSE Err("OpenSSLError")
    [] k.key.kind = "EC_OKP" -> Err("COSEKeyEDUnsupported")

\* the tail of a branch that forgets cose_key.validate()?
ValidateThenReturn_Skip(k) == Ok(k)

\* the tail of every branch of the decoder: cose_key.validate()?; Ok(cose_key)
ValidateThenReturn(k) ==
  IF validate(k).tag = "Ok" THEN Ok(k) ELSE Err(validate(k).err)

(***************************************************************************)
(* impl TryFrom<&serde_cbor_2::Value> for COSEKey                          *)
(***************************************************************************)
\* DecodeEc2 keeping each coordinate as the bytes of its number (leading zero
\* bytes dropped) instead of the bytes of the map
DecodeEc2_StripZeros(m, type_) ==
  LET cv == MapGet(m, -1)
      xv == MapGet(m, -2)
      yv == MapGet(m, -3)
  IN IF cv.t = "absent" THEN Err("COSEKeyInvalidCBORValue")
     ELSE IF cv.t # "int" THEN Err("COSEKeyInvalidCBORValue")
     ELSE IF ECDSACurveTryFrom(cv.v) = "invalid" THEN Err("COSEKeyECDSAInvalidCurve")
     ELSE IF xv.t = "absent" THEN Err("COSEKeyInvalidCBORValue")
     ELSE IF xv.t # "bytes" THEN Err("COSEKeyInvalidCBORValue")
     ELSE IF yv.t = "absent" THEN Err("COSEKeyInvalidCBORValue")
     ELSE IF yv.t # "bytes" THEN Err("COSEKeyInvalidCBORValue")
     ELSE LET curve == ECDSACurveTryFrom(cv.v)
              coord_len == coordinate_size(curve)
          IN IF xv.v.len # coord_len \/ yv.v.len # coord_len
             THEN Err("COSEKeyECDSAXYInvalid")
             ELSE ValidateThenReturn(
                    [type_ |-> type_,
                     key |-> [kind |-> "EC_EC2", curve |-> curve,
                              x |-> BigNumToVec(BigNumFromSlice(xv.v)),
                              y |-> BigNumToVec(BigNumFromSlice(yv.v))]])

DecodeEc2(m, type_) ==
  LET cv == MapGet(m, -1)
      xv == MapGet(m, -2)
      yv == MapGet(m, -3)
  IN IF cv.t = "absent" THEN Err("COSEKeyInvalidCBORValue")
     ELSE IF cv.t # "int" THEN Err("COSEKeyInvalidCBORValue")
     ELSE IF ECDSACurveTryFrom(cv.v) = "invalid" THEN Err("COSEKeyECDSAInvalidCurve")
     ELSE IF xv.t = "absent" THEN Err("COSEKeyInvalidCBORValue")
     ELSE IF xv.t # "bytes" THEN Err("COSEKeyInvalidCBORValue")
     ELSE IF yv.t = "absent" THEN Err("COSEKeyInvalidCBORValue")
     ELSE IF yv.t # "bytes" THEN Err("COSEKeyInvalidCBORValue")
     ELSE LET curve == ECDSACurveTryFrom(cv.v)
              coord_len == coordinate_size(curve)
          IN IF xv.v.len # coord_len \/ yv.v.len # coord_len
             THEN Err("COSEKeyECDSAXYInvalid")
             ELSE ValidateThenReturn(
                    [type_ |-> type_,
                     key |-> [kind |-> "EC_EC2", curve |-> curve,
                              x |-> xv.v, y |-> yv.v]])

\* DecodeRsa with the length test written with && in place of ||
DecodeRsa_AndLengths(m, type_) ==
  LET nv == MapGet(m, -1)
      ev == MapGet(m, -2)
  IN IF nv.t = "absent" THEN Err("COSEKeyInvalidCBORValue")
     ELSE IF nv.t # "bytes" THEN Err("COSEKeyInvalidCBORValue")
     ELSE IF ev.t = "absent" THEN Err("COSEKeyInvalidCBORValue")
     ELSE IF ev.t # "bytes" THEN Err("COSEKeyInvalidCBORValue")
     ELSE IF nv.v.len # RsaNLen /\ ev.v.len # RsaELen
          THEN Err("COSEKeyRSANEInvalid")
          ELSE ValidateThenReturn(
                 [type_ |-> type_,
                  key |-> [kind |-> "RSA", n |-> nv.v, e |-> ev.v]])

DecodeRsa(m, type_) ==
  LET nv == MapGet(m, -1)
      ev == MapGet(m, -2)
  IN IF nv.t = "absent" THEN Err("COSEKeyInvalidCBORValue")
     ELSE IF nv.t # "bytes" THEN Err("COSEKeyInvalidCBORValue")
     ELSE IF ev.t = "absent" THEN Err("COSEKeyInvalidCBORValue")
     ELSE IF ev.t # "bytes" THEN Err("COSEKeyInvalidCBORValue")
     ELSE IF nv.v.len # RsaNLen \/ ev.v.len # RsaELen
          THEN Err("COSEKeyRSANEInvalid")
          ELSE ValidateThenReturn(
                 [type_ |-> type_,
                  key |-> [kind |-> "RSA", n |-> nv.v, e |-> ev.v]])

\* DecodeOkp converting the curve id before it looks up x, as the EC2 arm does
DecodeOkp_CurveFirst(m, type_) ==
  LET cv == MapGet(m, -1)
      xv == MapGet(m, -2)
  IN IF cv.t = "absent" THEN Err("COSEKeyInvalidCBORValue")
     ELSE IF cv.t # "int" THEN Err("COSEKeyInvalidCBORValue")
     ELSE IF EDDSACurveTryFrom(cv.v) = "invalid" THEN Err("COSEKeyEDDSAInvalidCurve")
     ELSE IF xv.t = "absent" THEN Err("COSEKeyInvalidCBORValue")
     ELSE IF xv.t # "bytes" THEN Err("COSEKeyInvalidCBORValue")
     ELSE IF xv.v.len # OkpXLen THEN Err("COSEKeyEDDSAXInvalid")
     ELSE ValidateThenReturn(
            [type_ |-> type_,
             key |-> [kind |-> "EC_OKP", curve |-> EDDSACurveTryFrom(cv.v),
                      x |-> xv.v]])

DecodeOkp(m, type_) ==
  LET cv == MapGet(m, -1)
      xv == MapGet(m, -2)
  IN IF cv.t = "absent" THEN Err("COSEKeyInvalidCBORValue")
     ELSE IF cv.t # "int" THEN Err("COSEKeyInvalidCBORValue")
     ELSE IF xv.t = "absent" THEN Err("COSEKeyInvalidCBORValue")
     ELSE IF xv.t # "bytes" THEN Err("COSEKeyInvalidCBORValue")
     ELSE IF xv.v.len # OkpXLen THEN Err("COSEKeyEDDSAXInvalid")
     ELSE IF EDDSACurveTryFrom(cv.v) = "invalid" THEN Err("COSEKeyEDDSAInvalidCurve")
     ELSE ValidateThenReturn(
            [type_ |-> type_,
             key |-> [kind |-> "EC_OKP", curve |-> EDDSACurveTryFrom(cv.v),
                      x |-> xv.v]])

\* the dispatch with the RSA arm also taking PS256 (the arm's comment lists
\* -37 -> PS256 next to -257 -> RS256)
DecodeBranch_AcceptsPS256(key_type, type_) ==
  IF key_type = EC_EC2 /\ type_ \in {"ES256", "ES384", "ES512"} THEN "EC_EC2"
  ELSE IF key_type = EC_RSA /\ type_ \in {"RS256", "PS256"} THEN "RSA"
  ELSE IF key_type = EC_OKP /\ type_ = "EDDSA" THEN "EC_OKP"
  ELSE "none"

\* the (key type, algorithm) dispatch of the decoder
DecodeBranch(key_type, type_) ==
  IF key_type = EC_EC2 /\ type_ \in {"ES256", "ES384", "ES512"} THEN "EC_EC2"
  ELSE IF key_type = EC_RSA /\ type_ = "RS256" THEN "RSA"
  ELSE IF key_type = EC_OKP /\ type_ = "EDDSA" THEN "EC_OKP"
  ELSE "none"

\* TryFromCbor looking at the key type before it converts the algorithm id
TryFromCbor_KeyTypeFirst(d) ==
  IF d.t # "map" THEN Err("COSEKeyInvalidCBORValue")
  ELSE LET ktv == MapGet(d, LabelKty)
           ctv == MapGet(d, LabelAlg)
       IN IF ktv.t = "absent" THEN Err("COSEKeyInvalidCBORValue")
          ELSE IF ktv.t # "int" THEN Err("COSEKeyInvalidCBORValue")
          ELSE IF ctv.t = "absent" THEN Err("COSEKeyInvalidCBORValue")
          ELSE IF ctv.t # "int" THEN Err("COSEKeyInvalidCBORValue")
          ELSE IF ktv.v \notin {EC_OKP, EC_EC2, EC_RSA}
               THEN Err("COSEKeyInvalidType")
          ELSE IF COSEAlgorithmTryFrom(ctv.v) = "invalid"
               THEN Err("COSEKeyInvalidAlgorithm")
          ELSE LET type_ == COSEAlgorithmTryFrom(ctv.v)
                   br == DecodeBranch(ktv.v, type_)
               IN CASE br = "EC_EC2" -> DecodeEc2(d, type_)
                    [] br = "RSA" -> DecodeRsa(d, type_)
                    [] br = "EC_OKP" -> DecodeOkp(d, type_)
                    [] OTHER -> Err("COSEKeyInvalidType")

TryFromCbor(d) ==
  IF d.t # "map" THEN Err("COSEKeyInvalidCBORValue")
  ELSE LET ktv == MapGet(d, LabelKty)
           ctv == MapGet(d, LabelAlg)
       IN IF ktv.t = "absent" THEN Err("COSEKeyInvalidCBORValue")
          ELSE IF ktv.t # "int" THEN Err("COSEKeyInvalidCBORValue")
          ELSE IF ctv.t = "absent" THEN Err("COSEKeyInvalidCBORValue")
          ELSE IF ctv.t # "int" THEN Err("COSEKeyInvalidCBORValue")
          ELSE IF COSEAlgorithmTryFrom(ctv.v) = "invalid"
               THEN Err("COSEKeyInvalidAlgorithm")
          ELSE LET type_ == COSEAlgorithmTryFrom(ctv.v)
                   br == DecodeBranch(ktv.v, type_)
               IN CASE br = "EC_EC2" -> DecodeEc2(d, type_)
                    [] br = "RSA" -> DecodeRsa(d, type_)
                    [] br = "EC_OKP" -> DecodeOkp(d, type_)
                    [] OTHER -> Err("COSEKeyInvalidType")

(***************************************************************************)
(* impl TryFrom<(COSEAlgorithm, &x509::X509)> for COSEKey                  *)
(* A certificate is [pk, nid, x, y]: the kind of its subject public key    *)
(* ("EC", "RSA", "ED25519", or "none" when it cannot be read), and for an  *)
(* EC key the group's curve name ("UNDEF" for a group without a name) and  *)
(* the affine coordinates of the point.                                    *)
(***************************************************************************)
\* TryFromX509 without the num_bytes test on the coordinates
TryFromX509_NoLengthCheck(alg, pubk) ==
  IF alg \in {"ES256", "ES384", "ES512"}
  THEN IF pubk.pk # "EC" THEN Err("OpenSSLError")
       ELSE IF ~BackendEcKeyOk(pubk.nid, pubk.x, pubk.y) THEN Err("OpenSSLError")
       ELSE IF pubk.nid = "UNDEF" THEN Err("OpenSSLErrorNoCurveName")
       ELSE IF ECDSACurveFromNid(pubk.nid) = "invalid" THEN Err("ECDSACurveInvalidNid")
       ELSE Ok([type_ |-> alg,
                key |-> [kind |-> "EC_EC2", curve |-> ECDSACurveFromNid(pubk.nid),
                         x |-> BigNumToVec(pubk.x),
                         y |-> BigNumToVec(pubk.y)]])
  ELSE Err("COSEKeyInvalidType")

TryFromX509(alg, pubk) ==
  IF alg \in {"ES256", "ES384", "ES512"}
  THEN IF pubk.pk # "EC" THEN Err("OpenSSLError")
       ELSE IF ~BackendEcKeyOk(pubk.nid, pubk.x, pubk.y) THEN Err("OpenSSLError")
       ELSE IF pubk.nid = "UNDEF" THEN Err("OpenSSLErrorNoCurveName")
       ELSE IF ECDSACurveFromNid(pubk.nid) = "invalid" THEN Err("ECDSACurveInvalidNid")
       ELSE LET curve == ECDSACurveFromNid(pubk.nid)
            IN IF NumBytes(pubk.x) # coordinate_size(curve)
                  \/ NumBytes(pubk.y) # coordinate_size(curve)
               THEN Err("COSEKeyECDSAXYInvalid")
               ELSE Ok([type_ |-> alg,
                        key |-> [kind |-> "EC_EC2", curve |-> curve,
                                 x |-> BigNumToVec(pubk.x),
                                 y |-> BigNumToVec(pubk.y)]])
  ELSE Err("COSEKeyInvalidType")

(***************************************************************************)
(* Signature verification.                                                 *)
(* An OpenSSL public key is [kind, nid, a, b]: kind "EC" with the group    *)
(* and the point (a, b), or kind "RSA" with (n, e) in (a, b), or kind      *)
(* "ED25519".  A signature is [t |-> "sig", by, scheme, msg]: who made it  *)
(* ("self": the holder of the private key of the verifying key), under     *)
(* which scheme and over which message; or [t |-> "malformed"].            *)
(***************************************************************************)
NoPKey == [kind |-> "none", nid |-> "", a |-> [n |-> 0, id |-> OffCurve],
           b |-> [n |-> 0, id |-> OffCurve]]

PRes(tag, err, p) == [tag |-> tag, err |-> err, pkey |-> p]

\* COSEKey::get_openssl_pkey
get_openssl_pkey(k) ==
  CASE k.key.kind = "EC_EC2" ->
         LET nid == to_openssl_nid(k.key.curve)
             xbn == BigNumFromSlice(k.key.x)
             ybn == BigNumFromSlice(k.key.y)
         IN IF BackendEcKeyOk(nid, xbn, ybn)
            THEN PRes("Ok", "", [kind |-> "EC", nid |-> nid, a |-> xbn, b |-> ybn])
            ELSE PRes("Err", "OpenSSLError", NoPKey)
    [] k.key.kind = "RSA" ->
         LET nbn == BigNumFromSlice(k.key.n)
             ebn == BigNumFromSlice(k.key.e)
         IN IF BackendRsaOk(nbn, ebn)
            THEN PRes("Ok", "", [kind |-> "RSA", nid |-> "", a |-> nbn, b |-> ebn])
            ELSE PRes("Err", "OpenSSLError", NoPKey)
    [] OTHER -> PRes("Err", "COSEKeyInvalidType", NoPKey)

\* X509::public_key
X509PublicKey(pubk) ==
  CASE pubk.pk = "EC" ->
         PRes("Ok", "", [kind |-> "EC", nid |-> pubk.nid, a |-> pubk.x, b |-> pubk.y])
    [] pubk.pk = "RSA" ->
         PRes("Ok", "", [kind |-> "RSA", nid |-> "", a |-> pubk.x, b |-> pubk.y])
    [] pubk.pk = "ED25519" ->
         PRes("Ok", "", [kind |-> "ED25519", nid |-> "", a |-> pubk.x, b |-> pubk.y])
    [] OTHER -> PRes("Err", "OpenSSLError", NoPKey)

\* the verifier that the match of pkey_verify_signature builds for stype:
\* the digest and the RSA padding it is set up with, or the error
VerifierFor(pkey, stype) ==
  CASE stype = "ES256" ->
         IF pkey.kind = "ED25519"
         THEN [tag |-> "Err", err |-> "OpenSSLError", md |-> "", pad |-> ""]
         ELSE [tag |-> "Ok", err |-> "", md |-> "sha256", pad |-> "default"]
    [] stype = "RS256" ->
         IF pkey.kind # "RSA"
         THEN [tag |-> "Err", err |-> "OpenSSLError", md |-> "", pad |-> ""]
         ELSE [tag |-> "Ok", err |-> "", md |-> "sha256", pad |-> "PKCS1"]
    [] stype = "INSECURE_RS1" ->
         [tag |-> "Err", err |-> "CredentialInsecureCryptography", md |-> "", pad |-> ""]
    [] OTHER ->
         [tag |-> "Err", err |-> "COSEKeyInvalidType", md |-> "", pad |-> ""]

\* the signature scheme an OpenSSL verifier checks for a key kind and digest
\* (the default RSA padding of a verifier is PKCS1)
SchemeChecked(pkey, v) ==
  IF pkey.kind = "EC" THEN <<"ecdsa", v.md>> ELSE <<"pkcs1", v.md>>

\* sign::Verifier::update and verify: the outcomes the backend can produce
BackendVerify(pkey, v, signature, verification_data) ==
  IF signature.t = "malformed"
  THEN {VOk(FALSE), VErr("OpenSSLError")}
  ELSE {VOk(/\ signature.by = "self"
            /\ signature.scheme = SchemeChecked(pkey, v)
            /\ signature.msg = verification_data)}

\* pkey_verify_signature: the set of results it can return
pkey_verify_signature(pkey, stype, signature, verification_data) ==
  LET v == VerifierFor(pkey, stype)
  IN IF v.tag = "Err" THEN {VErr(v.err)}
     ELSE BackendVerify(pkey, v, signature, verification_data)

\* COSEKey::verify_signature
CoseVerifySignature(k, signature, verification_data) ==
  LET p == get_openssl_pkey(k)
  IN IF p.tag = "Err" THEN {VErr(p.err)}
     ELSE pkey_verify_signature(p.pkey, k.type_, signature, verification_data)

\* verify_signature (X.509)
X509VerifySignature(alg, pubk, signature, verification_data) ==
  LET p == X509PublicKey(pubk)
  IN IF p.tag = "Err" THEN {VErr(p.err)}
     ELSE pkey_verify_signature(p.pkey, alg, signature, verification_data)

(***************************************************************************)
(* COSEKey::get_alg_key_ecc_x962_raw                                       *)
(* The result is the sequence of the byte strings that the iterator chain  *)
(* yields, in the order in which it yields them.                           *)
(***************************************************************************)
\* the one-byte array [0x04]
X962Uncompressed == Bytes(1, 0, <<"0x04", 0>>)

NoRaw == [tag |-> "none", err |-> "", bytes |-> <<>>]

\* the number of bytes that a chain of byte strings collects into
RECURSIVE ChainLen(_)
ChainLen(chunks) ==
  IF chunks = <<>> THEN 0 ELSE Head(chunks).len + ChainLen(Tail(chunks))

\* get_alg_key_ecc_x962_raw chaining y before x
get_alg_key_ecc_x962_raw_YX(k) ==
  IF k.key.kind = "EC_EC2"
  THEN [NoRaw EXCEPT !.tag = "Ok", !.bytes = <<X962Uncompressed, k.key.y, k.key.x>>]
  ELSE [NoRaw EXCEPT !.tag = "Err", !.err = "COSEKeyInvalidType"]

get_alg_key_ecc_x962_raw(k) ==
  IF k.key.kind = "EC_EC2"
  THEN [NoRaw EXCEPT !.tag = "Ok", !.bytes = <<X962Uncompressed, k.key.x, k.key.y>>]
  ELSE [NoRaw EXCEPT !.tag = "Err", !.err = "COSEKeyInvalidType"]

\* only_hash_from_type: the input is not read (the parameter is _input) and
\* both arms of the match return an error
only_hash_from_type(alg, input) ==
  IF alg = "INSECURE_RS1"
  THEN [NoRaw EXCEPT !.tag = "Err", !.err = "CredentialInsecureCryptography"]
  ELSE [NoRaw EXCEPT !.tag = "Err", !.err = "COSEKeyInvalidType"]

(***************************************************************************)
(* Attestation certificate profiles.                                       *)
(* A certificate is [encodes, parsable, version, subject, extensions]:     *)
(* whether to_der and parse_x509_certificate succeed on it, the version    *)
(* number, the subject as the sequence of its attributes [type, str, s]    *)
(* (str: the value is a string type, s: the string), and the sequence of   *)
(* its extensions [oid, critical, v] with v = [ok, ca, other,              *)
(* general_names] the decoded content (ok: the content decodes as the      *)
(* type that belongs to the oid).                                          *)
(***************************************************************************)
V3 == 3

OID_X509_EXT_BASIC_CONSTRAINTS == "2.5.29.19"
OID_X509_EXT_SUBJECT_ALT_NAME == "2.5.29.17"
OID_X509_EXT_EXTENDED_KEY_USAGE == "2.5.29.37"
FidoGenCeAaguidOID == "1.3.6.1.4.1.45724.1.1.4"
TCG_KP_AIK_CERTIFICATE == "2.23.133.8.3"
TCG_AT_TPM_MANUFACTURER_RAW == "2.23.133.2.1"
TCG_AT_TPM_MODEL_RAW == "2.23.133.2.2"
TCG_AT_TPM_VERSION_RAW == "2.23.133.2.3"

COk == [tag |-> "Ok", err |-> ""]
CErr(e) == [tag |-> "Err", err |-> e]

ExtValue(ok, ca, other, names) ==
  [ok |-> ok, ca |-> ca, other |-> other, general_names |-> names]
Ext(oid, critical, v) == [oid |-> oid, critical |-> critical, v |-> v]
NoExt == Ext("", FALSE, ExtValue(FALSE, FALSE, {}, <<>>))

\* Result<Option<extension>, X509Error>: "Some", "None" or "Err"
ExtResult(tag, e) == [tag |-> tag, ext |-> e]

\* X509Certificate::get_extension_unique: Err when the oid occurs twice
get_extension_unique(c, oid) ==
  LET found == SelectSeq(c.extensions, LAMBDA e : e.oid = oid)
  IN IF Len(found) = 0 THEN ExtResult("None", NoExt)
     ELSE IF Len(found) > 1 THEN ExtResult("Err", NoExt)
     ELSE ExtResult("Some", found[1])

\* basic_constraints(), subject_alternative_name(), extended_key_usage():
\* the unique extension of the oid, and nothing when its content is not of
\* the oid's type
typed_extension(c, oid) ==
  LET r == get_extension_unique(c, oid)
  IN IF r.tag = "Some" /\ ~r.ext.v.ok THEN ExtResult("None", NoExt) ELSE r

\* check_extension with an error of its own for the extension that is
\* there more than once
check_extension_OwnError(extension, must_be_present, f) ==
  CASE extension.tag = "Some" ->
         IF f THEN COk ELSE CErr("AttestationCertificateRequirementsNotMet")
    [] extension.tag = "None" ->
         IF must_be_present
         THEN CErr("AttestationCertificateRequirementsNotMet") ELSE COk
    [] extension.tag = "Err" -> CErr("AttestationCertificateExtensionDuplicated")

\* check_extension; f is the value of the predicate on the extension found
check_extension(extension, must_be_present, f) ==
  CASE extension.tag = "Some" ->
         IF f THEN COk ELSE CErr("AttestationCertificateRequirementsNotMet")
    [] extension.tag = "None" ->
         IF must_be_present
         THEN CErr("AttestationCertificateRequirementsNotMet") ELSE COk
    [] extension.tag = "Err" -> CErr("AttestationCertificateRequirementsNotMet")

\* X509Name::iter_by_oid(..).take(1).next(): the first attribute of a type,
\* as a sequence of at most one element
FirstAttr(name, type) ==
  LET found == SelectSeq(name, LAMBDA a : a.type = type)
  IN IF found = <<>> THEN <<>> ELSE <<Head(found)>>

\* the TPM vendor ids that tpm_device_attribute_parser reads ("id:" and eight
\* hexadecimal digits) and those of them that TpmVendor::try_from knows
tpm_device_attribute_parser(str) ==
  IF str \in {"id:494E5443", "id:FFFFF1D0", "id:DEADBEEF"} THEN COk ELSE CErr("nom")
TpmVendorTryFrom(str) ==
  IF str \in {"id:494E5443", "id:FFFFF1D0"} THEN COk ELSE CErr("ParseNOMFailure")

\* the try_fold of TryFrom<&X509Name> for TpmSanData over a builder (an
\* Option is a sequence of at most one element): a TCG attribute whose value
\* is not a string ends the fold with an error
RECURSIVE TpmSanFold(_, _)
TpmSanFold(attrs, builder) ==
  IF attrs = <<>> THEN [tag |-> "Ok", b |-> builder]
  ELSE LET a == Head(attrs)
       IN CASE a.type = TCG_AT_TPM_MANUFACTURER_RAW ->
                 IF ~a.str THEN [tag |-> "Err", b |-> builder]
                 ELSE TpmSanFold(Tail(attrs), [builder EXCEPT !.manufacturer = <<a.s>>])
            [] a.type = TCG_AT_TPM_MODEL_RAW ->
                 IF ~a.str THEN [tag |-> "Err", b |-> builder]
                 ELSE TpmSanFold(Tail(attrs), [builder EXCEPT !.model = <<a.s>>])
            [] a.type = TCG_AT_TPM_VERSION_RAW ->
                 IF ~a.str THEN [tag |-> "Err", b |-> builder]
                 ELSE TpmSanFold(Tail(attrs), [builder EXCEPT !.version = <<a.s>>])
            [] OTHER -> TpmSanFold(Tail(attrs), builder)

\* TpmSanDataBuilder::build asking for the manufacturer only
TpmSanDataBuilderBuild_ManufacturerOnly(b) ==
  IF b.manufacturer # <<>>
  THEN [tag |-> "Ok", err |-> "", manufacturer |-> b.manufacturer[1]]
  ELSE [tag |-> "Err", err |-> "AttestationCertificateRequirementsNotMet",
        manufacturer |-> ""]

\* TpmSanDataBuilder::build
TpmSanDataBuilderBuild(b) ==
  IF b.manufacturer # <<>> /\ b.model # <<>> /\ b.version # <<>>
  THEN [tag |-> "Ok", err |-> "", manufacturer |-> b.manufacturer[1]]
  ELSE [tag |-> "Err", err |-> "AttestationCertificateRequirementsNotMet",
        manufacturer |-> ""]

\* impl TryFrom<&X509Name> for TpmSanData
TpmSanDataTryFrom(x509_name) ==
  LET r == TpmSanFold(x509_name,
                      [manufacturer |-> <<>>, model |-> <<>>, version |-> <<>>])
  IN IF r.tag = "Err"
     THEN [tag |-> "Err", err |-> "ParseNOMFailure", manufacturer |-> ""]
     ELSE TpmSanDataBuilderBuild(r.b)

\* the closure given to any() over the general names
GeneralNameOk(general_name) ==
  IF general_name.kind = "DirectoryName"
  THEN LET san_data == TpmSanDataTryFrom(general_name.name)
       IN /\ san_data.tag = "Ok"
          /\ tpm_device_attribute_parser(san_data.manufacturer).tag = "Ok"
          /\ TpmVendorTryFrom(san_data.manufacturer).tag = "Ok"
  ELSE FALSE

\* the predicate on the Subject Alternative Name extension
SanOk(subject_alternative_name) ==
  IF ~subject_alternative_name.critical THEN FALSE
  ELSE \E i \in 1..Len(subject_alternative_name.v.general_names) :
         GeneralNameOk(subject_alternative_name.v.general_names[i])

\* assert_tpm_attest_req without the test on the subject
assert_tpm_attest_req_AnySubject(x509) ==
  IF ~x509.encodes THEN CErr("OpenSSLError")
  ELSE IF ~x509.parsable THEN CErr("AttestationStatementX5CInvalid")
  ELSE IF x509.version # V3 THEN CErr("AttestationCertificateRequirementsNotMet")
  ELSE LET san == typed_extension(x509, OID_X509_EXT_SUBJECT_ALT_NAME)
           eku == typed_extension(x509, OID_X509_EXT_EXTENDED_KEY_USAGE)
           bc == typed_extension(x509, OID_X509_EXT_BASIC_CONSTRAINTS)
       IN IF check_extension(san, TRUE, SanOk(san.ext)).tag = "Err"
          THEN check_extension(san, TRUE, SanOk(san.ext))
          ELSE IF check_extension(eku, TRUE,
                    TCG_KP_AIK_CERTIFICATE \in eku.ext.v.other).tag = "Err"
          THEN check_extension(eku, TRUE, TCG_KP_AIK_CERTIFICATE \in eku.ext.v.other)
          ELSE IF check_extension(bc, TRUE, ~bc.ext.v.ca).tag = "Err"
          THEN check_extension(bc, TRUE, ~bc.ext.v.ca)
          ELSE COk

assert_tpm_attest_req(x509) ==
  IF ~x509.encodes THEN CErr("OpenSSLError")
  ELSE IF ~x509.parsable THEN CErr("AttestationStatementX5CInvalid")
  ELSE IF x509.version # V3 THEN CErr("AttestationCertificateRequirementsNotMet")
  ELSE IF Len(x509.subject) # 0 THEN CErr("AttestationCertificateRequirementsNotMet")
  ELSE LET san == typed_extension(x509, OID_X509_EXT_SUBJECT_ALT_NAME)
           eku == typed_extension(x509, OID_X509_EXT_EXTENDED_KEY_USAGE)
           bc == typed_extension(x509, OID_X509_EXT_BASIC_CONSTRAINTS)
       IN IF check_extension(san, TRUE, SanOk(san.ext)).tag = "Err"
          THEN check_extension(san, TRUE, SanOk(san.ext))
          ELSE IF check_extension(eku, TRUE,
                    TCG_KP_AIK_CERTIFICATE \in eku.ext.v.other).tag = "Err"
          THEN check_extension(eku, TRUE, TCG_KP_AIK_CERTIFICATE \in eku.ext.v.other)
          ELSE IF check_extension(bc, TRUE, ~bc.ext.v.ca).tag = "Err"
          THEN check_extension(bc, TRUE, ~bc.ext.v.ca)
          ELSE COk

\* assert_packed_attest_req comparing the OU with != replaced by == "Other"
assert_packed_attest_req_OuNotOther(pubk) ==
  IF ~pubk.encodes THEN CErr("OpenSSLError")
  ELSE IF ~pubk.parsable THEN CErr("AttestationStatementX5CInvalid")
  ELSE IF pubk.version # V3 THEN CErr("AttestationCertificateRequirementsNotMet")
  ELSE LET subject_c == FirstAttr(pubk.subject, "C")
           subject_o == FirstAttr(pubk.subject, "O")
           subject_ou == FirstAttr(pubk.subject, "OU")
           subject_cn == FirstAttr(pubk.subject, "CN")
           aaguid == get_extension_unique(pubk, FidoGenCeAaguidOID)
           bc == typed_extension(pubk, OID_X509_EXT_BASIC_CONSTRAINTS)
       IN IF subject_c = <<>> \/ subject_o = <<>> \/ subject_cn = <<>>
          THEN CErr("AttestationCertificateRequirementsNotMet")
          ELSE IF subject_ou = <<>>
          THEN CErr("AttestationCertificateRequirementsNotMet")
          ELSE IF ~subject_ou[1].str
          THEN CErr("AttestationCertificateRequirementsNotMet")
          ELSE IF subject_ou[1].s = "Other"
          THEN CErr("AttestationCertificateRequirementsNotMet")
          ELSE IF check_extension(aaguid, FALSE, ~aaguid.ext.critical).tag = "Err"
          THEN check_extension(aaguid, FALSE, ~aaguid.ext.critical)
          ELSE IF check_extension(bc, TRUE, ~bc.ext.v.ca).tag = "Err"
          THEN check_extension(bc, TRUE, ~bc.ext.v.ca)
          ELSE COk

assert_packed_attest_req(pubk) ==
  IF ~pubk.encodes THEN CErr("OpenSSLError")
  ELSE IF ~pubk.parsable THEN CErr("AttestationStatementX5CInvalid")
  ELSE IF pubk.version # V3 THEN CErr("AttestationCertificateRequirementsNotMet")
  ELSE LET subject_c == FirstAttr(pubk.subject, "C")
           subject_o == FirstAttr(pubk.subject, "O")
           subject_ou == FirstAttr(pubk.subject, "OU")
           subject_cn == FirstAttr(pubk.subject, "CN")
           aaguid == get_extension_unique(pubk, FidoGenCeAaguidOID)
           bc == typed_extension(pubk, OID_X509_EXT_BASIC_CONSTRAINTS)
       IN IF subject_c = <<>> \/ subject_o = <<>> \/ subject_cn = <<>>
          THEN CErr("AttestationCertificateRequirementsNotMet")
          ELSE IF subject_ou = <<>>
          THEN CErr("AttestationCertificateRequirementsNotMet")
          ELSE IF ~subject_ou[1].str
          THEN CErr("AttestationCertificateRequirementsNotMet")
          ELSE IF subject_ou[1].s # "Authenticator Attestation"
          THEN CErr("AttestationCertificateRequirementsNotMet")
          ELSE IF check_extension(aaguid, FALSE, ~aaguid.ext.critical).tag = "Err"
          THEN check_extension(aaguid, FALSE, ~aaguid.ext.critical)
          ELSE IF check_extension(bc, TRUE, ~bc.ext.v.ca).tag = "Err"
          THEN check_extension(bc, TRUE, ~bc.ext.v.ca)
          ELSE COk

(***************************************************************************)
(* WebauthnBuilder and Webauthn (webauthn-rs/src/lib.rs).                  *)
(* A string is the sequence of its pieces, "." being a piece of its own:   *)
(* "myexample.com" is <<"my", "example", ".", "com">>.  A Url is [scheme,  *)
(* host_kind, host]: host_kind says whether the parsed host is a domain    *)
(* name, an IP address or missing.  An Option is a sequence of at most one *)
(* element.                                                                *)
(***************************************************************************)
\* str::ends_with
ends_with(str, suffix) ==
  /\ Len(suffix) <= Len(str)
  /\ SubSeq(str, Len(str) - Len(suffix) + 1, Len(str)) = suffix

\* Url::domain: the host when it is a domain name
domain(url) == IF url.host_kind = "Domain" THEN <<url.host>> ELSE <<>>

\* COSEAlgorithm::secure_algs
secure_algs == <<"ES256", "RS256">>

NoBuilder ==
  [rp_name |-> <<>>, rp_id |-> <<>>, allowed_origins |-> <<>>,
   allow_subdomains |-> FALSE, allow_any_port |-> FALSE, algorithms |-> <<>>,
   user_presence_only_security_keys |-> FALSE]

\* WebauthnBuilder::new comparing with ends_with(rp_id), without the "."
WebauthnBuilderNew_NoDot(rp_id, rp_origin) ==
  LET valid == IF domain(rp_origin) = <<>> THEN FALSE
               ELSE \/ ends_with(domain(rp_origin)[1], rp_id)
                    \/ domain(rp_origin)[1] = rp_id
  IN IF valid
     THEN [tag |-> "Ok", err |-> "",
           val |-> [rp_name |-> <<>>, rp_id |-> rp_id,
                    allowed_origins |-> <<rp_origin>>,
                    allow_subdomains |-> FALSE, allow_any_port |-> FALSE,
                    algorithms |-> secure_algs,
                    user_presence_only_security_keys |-> FALSE]]
     ELSE [tag |-> "Err", err |-> "Configuration", val |-> NoBuilder]

\* WebauthnBuilder::new
WebauthnBuilderNew(rp_id, rp_origin) ==
  LET valid == IF domain(rp_origin) = <<>> THEN FALSE
               ELSE \/ ends_with(domain(rp_origin)[1], <<".">> \o rp_id)
                    \/ domain(rp_origin)[1] = rp_id
  IN IF valid
     THEN [tag |-> "Ok", err |-> "",
           val |-> [rp_name |-> <<>>, rp_id |-> rp_id,
                    allowed_origins |-> <<rp_origin>>,
                    allow_subdomains |-> FALSE, allow_any_port |-> FALSE,
                    algorithms |-> secure_algs,
                    user_presence_only_security_keys |-> FALSE]]
     ELSE [tag |-> "Err", err |-> "Configuration", val |-> NoBuilder]

\* WebauthnBuilder::allow_subdomains
allow_subdomains(b, allow) == [b EXCEPT !.allow_subdomains = allow]

\* WebauthnBuilder::allow_any_port
allow_any_port(b, allow) == [b EXCEPT !.allow_any_port = allow]

\* append_allowed_origin putting the origin in the place of the list
append_allowed_origin_Replace(b, origin) ==
  [b EXCEPT !.allowed_origins = <<origin>>]

\* WebauthnBuilder::append_allowed_origin
append_allowed_origin(b, origin) ==
  [b EXCEPT !.allowed_origins = Append(@, origin)]

\* rp_name keeping the name that was set first
rp_name_KeepFirst(b, name) ==
  [b EXCEPT !.rp_name = IF @ = <<>> THEN <<name>> ELSE @]

\* WebauthnBuilder::rp_name
rp_name(b, name) == [b EXCEPT !.rp_name = <<name>>]

\* WebauthnBuilder::danger_set_user_presence_only_security_keys
danger_set_user_presence_only_security_keys(b, enable) ==
  [b EXCEPT !.user_presence_only_security_keys = enable]

NoWebauthn ==
  [core |-> [rp_name |-> <<>>, rp_id |-> <<>>, allowed_origins |-> <<>>,
             allow_subdomains |-> FALSE, allow_any_port |-> FALSE],
   algorithms |-> <<>>, user_presence_only_security_keys |-> FALSE]

\* WebauthnBuilder::build: Ok(Webauthn { core, algorithms,
\* user_presence_only_security_keys }) for every builder
build(b) ==
  [core |-> [rp_name |-> IF b.rp_name = <<>> THEN b.rp_id ELSE b.rp_name[1],
             rp_id |-> b.rp_id,
             allowed_origins |-> b.allowed_origins,
             allow_subdomains |-> b.allow_subdomains,
             allow_any_port |-> b.allow_any_port],
   algorithms |-> b.algorithms,
   user_presence_only_security_keys |-> b.user_presence_only_security_keys]

(***************************************************************************)
(* The start_* ceremonies.  What a ceremony returns is the answer of the   *)
(* core to the options that the ceremony hands to it; the record keeps     *)
(* the options.  core is the answer of the core library ("Ok" or "Err").   *)
(***************************************************************************)
NoCredProtect == [some |-> FALSE, policy |-> "", enforce |-> FALSE]
CredProtect(enforce) ==
  [some |-> TRUE, policy |-> "UserVerificationRequired", enforce |-> enforce]

NoCaList == [some |-> FALSE, cas |-> {}]
SomeCaList(cas) == [some |-> TRUE, cas |-> cas]

NoOffer ==
  [tag |-> "none", err |-> "", flow |-> "", attestation |-> "", policy |-> "",
   cred_protect |-> NoCredProtect, min_pin_length |-> FALSE,
   hmac_create_secret |-> FALSE, uvm |-> FALSE, cred_props |-> FALSE,
   credential_algorithms |-> <<>>, require_resident_key |-> FALSE,
   reject_passkeys |-> FALSE, allow_backup_eligible_upgrade |-> FALSE,
   ca_list |-> NoCaList]
OfferErr(flow, e) == [NoOffer EXCEPT !.tag = "Err", !.err = e, !.flow = flow]

\* the options of a registration that a ceremony hands to the core
RegOptions(attestation, policy, cred_protect, min_pin_length, hmac_create_secret) ==
  [attestation |-> attestation, policy |-> policy, cred_protect |-> cred_protect,
   min_pin_length |-> min_pin_length, hmac_create_secret |-> hmac_create_secret]

\* core.generate_challenge_register_options(..).map(|(ccr, rs)| ..)
generate_challenge_register_options(core, flow, o, algs, rk, reject, ca_list) ==
  IF core = "Err" THEN OfferErr(flow, "core")
  ELSE [NoOffer EXCEPT !.tag = "Ok", !.flow = flow,
          !.attestation = o.attestation, !.policy = o.policy,
          !.cred_protect = o.cred_protect, !.min_pin_length = o.min_pin_length,
          !.hmac_create_secret = o.hmac_create_secret, !.uvm = TRUE,
          !.cred_props = TRUE,
          !.credential_algorithms = algs,
          !.require_resident_key = rk,
          !.reject_passkeys = reject, !.ca_list = ca_list]

\* core.generate_challenge_authenticate_policy(..).map(|(rcr, ast)| ..)
generate_challenge_authenticate_policy(core, flow, policy, uvm, upgrade) ==
  IF core = "Err" THEN OfferErr(flow, "core")
  ELSE [NoOffer EXCEPT !.tag = "Ok", !.flow = flow, !.policy = policy,
          !.uvm = uvm, !.allow_backup_eligible_upgrade = upgrade]

\* start_passkey_registration handing on the list with INSECURE_RS1 added
start_passkey_registration_AddRS1(w, core) ==
  generate_challenge_register_options(core, "passkey_registration",
    RegOptions("None", "Required", CredProtect(FALSE), FALSE, FALSE),
    Append(w.algorithms, "INSECURE_RS1"), FALSE, FALSE, NoCaList)

\* Webauthn::start_passkey_registration
start_passkey_registration(w, core) ==
  generate_challenge_register_options(core, "passkey_registration",
    RegOptions("None", "Required", CredProtect(FALSE), FALSE, FALSE),
    w.algorithms, FALSE, FALSE, NoCaList)

\* Webauthn::start_passkey_authentication
start_passkey_authentication(w, core) ==
  generate_challenge_authenticate_policy(core, "passkey_authentication",
    "Required", FALSE, TRUE)

\* start_securitykey_registration with the empty list taken as no list
start_securitykey_registration_EmptyAsNone(w, core, attestation_ca_list) ==
  LET attestation == IF attestation_ca_list.some /\ attestation_ca_list.cas # {}
                     THEN "Direct" ELSE "None"
      cred_protect == IF w.user_presence_only_security_keys
                      THEN NoCredProtect ELSE CredProtect(FALSE)
      policy == IF w.user_presence_only_security_keys
                THEN "Discouraged_DO_NOT_USE" ELSE "Preferred"
  IN generate_challenge_register_options(core, "securitykey_registration",
       RegOptions(attestation, policy, cred_protect, FALSE, FALSE),
       w.algorithms, FALSE, TRUE, attestation_ca_list)

\* Webauthn::start_securitykey_registration
start_securitykey_registration(w, core, attestation_ca_list) ==
  IF attestation_ca_list.some /\ attestation_ca_list.cas = {}
  THEN OfferErr("securitykey_registration", "MissingAttestationCaList")
  ELSE LET attestation == IF attestation_ca_list.some THEN "Direct" ELSE "None"
           cred_protect == IF w.user_presence_only_security_keys
                           THEN NoCredProtect ELSE CredProtect(FALSE)
           policy == IF w.user_presence_only_security_keys
                     THEN "Discouraged_DO_NOT_USE" ELSE "Preferred"
       IN generate_challenge_register_options(core, "securitykey_registration",
            RegOptions(attestation, policy, cred_protect, FALSE, FALSE),
            w.algorithms, FALSE, TRUE, attestation_ca_list)

\* start_securitykey_authentication asking for Preferred whatever the flag
start_securitykey_authentication_Preferred(w, core) ==
  generate_challenge_authenticate_policy(core, "securitykey_authentication",
    "Preferred", FALSE, FALSE)

\* Webauthn::start_securitykey_authentication
start_securitykey_authentication(w, core) ==
  generate_challenge_authenticate_policy(core, "securitykey_authentication",
    IF w.user_presence_only_security_keys
    THEN "Discouraged_DO_NOT_USE" ELSE "Preferred",
    FALSE, FALSE)

\* Webauthn::start_attested_passkey_registration
start_attested_passkey_registration(w, core, attestation_ca_list) ==
  IF attestation_ca_list.cas = {}
  THEN OfferErr("attested_passkey_registration", "MissingAttestationCaList")
  ELSE generate_challenge_register_options(core, "attested_passkey_registration",
         RegOptions("Direct", "Required", CredProtect(TRUE), TRUE, FALSE),
         w.algorithms, FALSE, TRUE, attestation_ca_list)

\* Webauthn::start_attested_passkey_authentication
start_attested_passkey_authentication(w, core) ==
  generate_challenge_authenticate_policy(core, "attested_passkey_authentication",
    "Required", TRUE, FALSE)

\* Webauthn::start_attested_resident_key_registration
start_attested_resident_key_registration(w, core, attestation_ca_list) ==
  IF attestation_ca_list.cas = {}
  THEN OfferErr("attested_resident_key_registration", "MissingAttestationCaList")
  ELSE generate_challenge_register_options(core,
         "attested_resident_key_registration",
         RegOptions("Direct", "Required", CredProtect(TRUE), TRUE, TRUE),
         w.algorithms, TRUE, TRUE, attestation_ca_list)

\* Webauthn::start_attested_resident_key_authentication
start_attested_resident_key_authentication(w, core) ==
  generate_challenge_authenticate_policy(core,
    "attested_resident_key_authentication", "Required", TRUE, FALSE)

\* Webauthn::get_allowed_origins: the origins that build handed to the core
get_allowed_origins(w) == w.core.allowed_origins

(***************************************************************************)
(* The finish_* ceremonies.  A ceremony state is [live, ch, st, creds]:    *)
(* the challenge that the core drew for it, the record that start_*        *)
(* returned and the credentials that start_*_authentication cloned into    *)
(* it (one credential, given by its sign_count; an Option).  A response    *)
(* of the user agent is [ch, valid, ca, counter]: the challenge it         *)
(* answers, whether everything else in it verifies, the CA that its        *)
(* attestation chains to and the sign_count of its authenticator data.     *)
(***************************************************************************)
NoSession == [live |-> FALSE, ch |-> "", st |-> NoOffer, creds |-> <<>>]
Session(ch, st, creds) == [live |-> TRUE, ch |-> ch, st |-> st, creds |-> creds]

NoRsp == [ch |-> "", valid |-> FALSE, ca |-> "", counter |-> 0]

\* what a finish_* returns: trust is the list of trust anchors that the
\* core was given, sign_count the counter of the AuthenticationResult
FinRes(tag, err, trust, sign_count) ==
  [tag |-> tag, err |-> err, trust |-> trust, sign_count |-> sign_count]

\* core.generate_challenge_authenticate_discoverable(policy, extensions)
generate_challenge_authenticate_discoverable(core, flow, policy, uvm) ==
  IF core = "Err" THEN OfferErr(flow, "core")
  ELSE [NoOffer EXCEPT !.tag = "Ok", !.flow = flow, !.policy = policy, !.uvm = uvm]

\* Webauthn::start_discoverable_authentication
start_discoverable_authentication(w, core) ==
  generate_challenge_authenticate_discoverable(core,
    "discoverable_authentication", "Required", TRUE)

\* core.register_credential(reg, rs, attestation_cas): steps 1 to 9 of
\* finish_registration; the chain is checked against the trust anchors
\* when there are any
register_credential(reg, rs, attestation_cas) ==
  IF reg.ch # rs.ch THEN FinRes("Err", "ChallengeMismatch", attestation_cas, 0)
  ELSE IF ~reg.valid
  THEN FinRes("Err", "AttestationStatementInvalid", attestation_cas, 0)
  ELSE IF attestation_cas.some /\ reg.ca \notin attestation_cas.cas
  THEN FinRes("Err", "AttestationChainUnknown", attestation_cas, 0)
  ELSE FinRes("Ok", "", attestation_cas, 0)

\* core.authenticate_credential(rsp, ast): steps 1 to 8 of
\* finish_authentication; the stored sign_count is that of the credential
\* in the state
authenticate_credential(rsp, ast) ==
  IF rsp.ch # ast.ch THEN FinRes("Err", "ChallengeMismatch", NoCaList, 0)
  ELSE IF ast.creds = <<>> THEN FinRes("Err", "UnknownCredential", NoCaList, 0)
  ELSE IF ~rsp.valid
  THEN FinRes("Err", "SignatureVerificationFailed", NoCaList, 0)
  ELSE IF (ast.creds[1] > 0 \/ rsp.counter > 0) /\ rsp.counter <= ast.creds[1]
  THEN FinRes("Err", "CredentialPossiblyCloned", NoCaList, 0)
  ELSE FinRes("Ok", "", NoCaList, rsp.counter)

\* Webauthn::finish_passkey_registration
finish_passkey_registration(w, reg, state) ==
  register_credential(reg, state, NoCaList)

\* finish_passkey_authentication taking CredentialPossiblyCloned as advice
\* and returning the result all the same
finish_passkey_authentication_Advisory(w, reg, state) ==
  LET r == authenticate_credential(reg, state)
  IN IF r.err = "CredentialPossiblyCloned"
     THEN FinRes("Ok", "", NoCaList, reg.counter) ELSE r

\* Webauthn::finish_passkey_authentication
finish_passkey_authentication(w, reg, state) ==
  authenticate_credential(reg, state)

\* Webauthn::finish_securitykey_registration
\* finish_securitykey_registration handing no trust anchors to the core
finish_securitykey_registration_NoTrust(w, reg, state) ==
  register_credential(reg, state, NoCaList)

finish_securitykey_registration(w, reg, state) ==
  register_credential(reg, state, state.st.ca_list)

\* Webauthn::finish_securitykey_authentication
finish_securitykey_authentication(w, reg, state) ==
  authenticate_credential(reg, state)

\* Webauthn::finish_attested_passkey_registration
finish_attested_passkey_registration(w, reg, state) ==
  register_credential(reg, state, SomeCaList(state.st.ca_list.cas))

\* Webauthn::finish_attested_passkey_authentication
finish_attested_passkey_authentication(w, reg, state) ==
  authenticate_credential(reg, state)

\* Webauthn::finish_discoverable_authentication: the state is taken by
\* value and the credentials are set in it before the core sees it
finish_discoverable_authentication(w, reg, state, creds) ==
  authenticate_credential(reg, [state EXCEPT !.creds = creds])

\* Webauthn::finish_attested_resident_key_registration
finish_attested_resident_key_registration(w, reg, state) ==
  register_credential(reg, state, SomeCaList(state.st.ca_list.cas))

\* Webauthn::finish_attested_resident_key_authentication
finish_attested_resident_key_authentication(w, reg, state) ==
  authenticate_credential(reg, state)

(***************************************************************************)
(* Sampled inputs.                                                         *)
(***************************************************************************)
Nids == {"X9_62_PRIME256V1", "SECP384R1", "SECP521R1"}
CertNids == Nids \cup {"SECP256K1", "UNDEF"}
PointIds(nid) == {<<nid, k>> : k \in 1..NumPoints}
Msgs == 1..NumMsgs

\* coordinates as byte strings: of the field's size, of the field's size
\* with a leading zero byte (as y in the ES512 fixture of tests::cbor_es512),
\* one byte short, and of the right size but off the curve
CoordSamples ==
  UNION {{Bytes(FieldBytes(nid), 0, id) : id \in PointIds(nid)} : nid \in Nids}
    \cup {Bytes(P521Size, 1, <<"SECP521R1", 1>>),
          Bytes(P256Size - 1, 0, <<"X9_62_PRIME256V1", 1>>),
          Bytes(P256Size, 0, OffCurve)}

L1Vals == {Absent, CText} \cup {CInt(i) : i \in {1, 2, 3, 4}}
L3Vals == {Absent, CText} \cup {CInt(i) : i \in AlgIds \cup {0}}
N1Vals == {Absent, CText}
            \cup {CInt(i) : i \in {1, 2, 3, 6, 7, 9}}
            \cup {CBytes(Bytes(RsaNLen, 0, RsaTag)), CBytes(Bytes(RsaNLen - 1, 0, RsaTag))}
N2Vals == {Absent, CInt(0)}
            \cup {CBytes(b) : b \in CoordSamples}
            \cup {CBytes(Bytes(RsaELen, 0, RsaTag)), CBytes(Bytes(RsaELen + 1, 0, RsaTag))}
N3Vals == {Absent, CInt(0)} \cup {CBytes(b) : b \in CoordSamples}

NoCbor == [t |-> "none"]

\* the numbers a certificate's point can have as a coordinate: of the
\* field's size, one byte shorter (the byte string of the field's size
\* would start with a zero byte), and not a coordinate of the group
BnSamples(nid) ==
  {[n |-> FieldBytes(nid), id |-> id] : id \in PointIds(nid)}
    \cup {[n |-> FieldBytes(nid) - 1, id |-> <<nid, 1>>],
          [n |-> FieldBytes(nid), id |-> OffCurve]}

NoCert == [pk |-> "none", nid |-> "", x |-> [n |-> 0, id |-> OffCurve],
           y |-> [n |-> 0, id |-> OffCurve]]
EcCert(nid, x, y) == [pk |-> "EC", nid |-> nid, x |-> x, y |-> y]
OtherCert(k) == [pk |-> k, nid |-> "", x |-> [n |-> RsaNLen, id |-> RsaTag],
                 y |-> [n |-> RsaELen, id |-> RsaTag]]

\* COSEKey values that a caller holds without going through a constructor
\* of this module (the fields are public and the type is deserialisable)
StoredKeys ==
  UNION {
    {[type_ |-> a, key |-> [kind |-> "EC_EC2", curve |-> c, x |-> x, y |-> x]] :
       a \in COSEAlgorithms,
       x \in {Bytes(coordinate_size(c), 0, <<to_openssl_nid(c), 1>>),
              Bytes(coordinate_size(c), 0, OffCurve)}} : c \in Curves}
  \cup {[type_ |-> a, key |-> [kind |-> "RSA", n |-> Bytes(RsaNLen, 0, RsaTag),
                               e |-> Bytes(RsaELen, 0, RsaTag)]] :
          a \in COSEAlgorithms}
  \cup {[type_ |-> a, key |-> [kind |-> "EC_OKP", curve |-> "ED25519",
                               x |-> Bytes(OkpXLen, 0, OffCurve)]] :
          a \in COSEAlgorithms}

Schemes == {<<"ecdsa", "sha256">>, <<"ecdsa", "sha384">>, <<"ecdsa", "sha512">>,
            <<"pkcs1", "sha256">>, <<"pss", "sha256">>, <<"pss", "sha384">>,
            <<"pss", "sha512">>}
NoSig == [t |-> "none", by |-> "", scheme |-> <<"", "">>, msg |-> 0]
Malformed == [t |-> "malformed", by |-> "", scheme |-> <<"", "">>, msg |-> 0]
Sigs ==
  {Malformed}
    \cup {[t |-> "sig", by |-> "self", scheme |-> sc, msg |-> m] :
            sc \in Schemes, m \in Msgs}
    \cup {[t |-> "sig", by |-> "other", scheme |-> sc, msg |-> m] :
            sc \in {<<"ecdsa", "sha256">>, <<"pkcs1", "sha256">>}, m \in Msgs}

\* subjects and extensions of the sampled certificates
Attr(type, str, s) == [type |-> type, str |-> str, s |-> s]
SubjectOf(c, o, ous, cn) ==
  (IF c THEN <<Attr("C", TRUE, "SE")>> ELSE <<>>)
    \o (IF o THEN <<Attr("O", TRUE, "Yubico AB")>> ELSE <<>>)
    \o ous
    \o (IF cn THEN <<Attr("CN", TRUE, "Yubico U2F EE Serial 1")>> ELSE <<>>)
Subjects ==
  {<<>>}
    \cup {SubjectOf(TRUE, TRUE, ous, TRUE) :
            ous \in {<<>>,
                     <<Attr("OU", TRUE, "Authenticator Attestation")>>,
                     <<Attr("OU", TRUE, "Other")>>,
                     <<Attr("OU", TRUE, "FIDO")>>,
                     <<Attr("OU", FALSE, "")>>,
                     <<Attr("OU", TRUE, "Authenticator Attestation"),
                       Attr("OU", TRUE, "Other")>>,
                     <<Attr("OU", TRUE, "Other"),
                       Attr("OU", TRUE, "Authenticator Attestation")>>}}
    \cup {SubjectOf(FALSE, TRUE, <<Attr("OU", TRUE, "Authenticator Attestation")>>, TRUE),
          SubjectOf(TRUE, FALSE, <<Attr("OU", TRUE, "Authenticator Attestation")>>, TRUE),
          SubjectOf(TRUE, TRUE, <<Attr("OU", TRUE, "Authenticator Attestation")>>, FALSE)}

\* the id-fido-gen-ce-aaguid extension: absent, not critical, critical, twice
AaguidOpts ==
  LET e(critical) == Ext(FidoGenCeAaguidOID, critical, ExtValue(TRUE, FALSE, {}, <<>>))
  IN {<<>>, <<e(FALSE)>>, <<e(TRUE)>>, <<e(FALSE), e(FALSE)>>}

\* Basic Constraints: absent, CA false, CA true, not decodable, twice
BcOpts ==
  LET e(ok, ca) == Ext(OID_X509_EXT_BASIC_CONSTRAINTS, TRUE, ExtValue(ok, ca, {}, <<>>))
  IN {<<>>, <<e(TRUE, FALSE)>>, <<e(TRUE, TRUE)>>, <<e(FALSE, FALSE)>>,
      <<e(TRUE, FALSE), e(TRUE, FALSE)>>}

\* Extended Key Usage: absent, with and without tcg-kp-AIKCertificate, twice
EkuOpts ==
  LET e(oids) == Ext(OID_X509_EXT_EXTENDED_KEY_USAGE, FALSE,
                     ExtValue(TRUE, FALSE, oids, <<>>))
  IN {<<>>, <<e({TCG_KP_AIK_CERTIFICATE})>>, <<e({"1.3.6.1.5.5.7.3.1"})>>,
      <<e({TCG_KP_AIK_CERTIFICATE}), e({TCG_KP_AIK_CERTIFICATE})>>}

DirectoryName(attrs) == [kind |-> "DirectoryName", name |-> attrs]
\* a TCG attribute with a string value
TcgAttr(oid, str) == Attr(oid, TRUE, str)

\* Subject Alternative Name: absent, not critical, not decodable, twice, and
\* critical with each of the sampled lists of general names
SanOpts ==
  LET e(ok, critical, names) ==
        Ext(OID_X509_EXT_SUBJECT_ALT_NAME, critical, ExtValue(ok, FALSE, {}, names))
      man(str) == TcgAttr(TCG_AT_TPM_MANUFACTURER_RAW, str)
      model == TcgAttr(TCG_AT_TPM_MODEL_RAW, "NPCT6xx")
      version == TcgAttr(TCG_AT_TPM_VERSION_RAW, "id:13")
      good == DirectoryName(<<man("id:494E5443"), model, version>>)
      dns == [kind |-> "DNSName", name |-> <<>>]
  IN {<<>>, <<e(TRUE, FALSE, <<good>>)>>, <<e(FALSE, TRUE, <<>>)>>,
      <<e(TRUE, TRUE, <<good>>), e(TRUE, TRUE, <<good>>)>>}
       \cup {<<e(TRUE, TRUE, names)>> : names \in
              {<<good>>,
               <<DirectoryName(<<man("id:FFFFF1D0"), Attr("CN", TRUE, "x"),
                                 version, model>>)>>,
               <<DirectoryName(<<man("id:DEADBEEF"), model, version>>)>>,
               <<DirectoryName(<<man("Intel"), model, version>>)>>,
               <<DirectoryName(<<man("id:494E5443"), version>>)>>,
               <<DirectoryName(<<man("id:494E5443"), model>>)>>,
               <<DirectoryName(<<model, version>>)>>,
               <<DirectoryName(<<man("id:494E5443"),
                                 Attr(TCG_AT_TPM_MODEL_RAW, FALSE, ""), version>>)>>,
               <<DirectoryName(<<man("id:DEADBEEF"), man("id:494E5443"),
                                 model, version>>)>>,
               <<DirectoryName(<<man("id:494E5443"), man("id:DEADBEEF"),
                                 model, version>>)>>,
               <<dns>>,
               <<>>,
               <<dns, good>>,
               <<DirectoryName(<<man("id:DEADBEEF"), model, version>>), good>>,
               <<good, DirectoryName(<<man("id:494E5443"), model>>)>>,
               <<DirectoryName(<<man("id:494E5443"), model, version,
                                 Attr(TCG_AT_TPM_MODEL_RAW, FALSE, "")>>)>>}}

X509(encodes, parsable, version, subject, extensions) ==
  [encodes |-> encodes, parsable |-> parsable, version |-> version,
   subject |-> subject, extensions |-> extensions]
NoX509 == X509(FALSE, FALSE, 0, <<>>, <<>>)

\* relying party ids, origins, names and CA lists of the sampled calls
Url(scheme, host_kind, host) ==
  [scheme |-> scheme, host_kind |-> host_kind, host |-> host]
ExtensionId == <<"2114c9f524d0cbd74dbe846a51c3e5b34b83ac02c5220ec5cdff751096fa25a5">>
RpIds ==
  {<<"idm", ".", "example", ".", "com">>,
   <<"example", ".", "com">>,
   <<"com">>,
   <<"my", "example", ".", "com">>,
   ExtensionId,
   <<"127.0.0.1">>,
   <<>>}
RpOrigins ==
  {Url("https", "Domain", <<"idm", ".", "example", ".", "com">>),
   Url("https", "Domain", <<"my", "example", ".", "com">>),
   Url("https", "Domain", <<"idm", ".", "different", ".", "com">>),
   Url("chrome-extension", "Domain", ExtensionId),
   Url("https", "Ipv4", <<"127.0.0.1">>)}
ExtraOrigins ==
  {Url("https", "Domain", <<"au", ".", "idm", ".", "example", ".", "com">>),
   Url("https", "Domain", <<"app", ".", "other", ".", "org">>),
   Url("android", "None", <<>>)}
RpNames == {<<"Example Corp">>, <<"IDM">>}
OptionalCaLists == {NoCaList, SomeCaList({}), SomeCaList({"ca1"})}
CoreResults == {"Ok", "Err"}

\* the challenges that the core draws, the sign_counts of the credential
\* and of the responses, and the responses of the user agent
Challenges == {"c1", "c2"}
Counters == {0, 4, 5}
RegResponses ==
  {[ch |-> ch, valid |-> v, ca |-> ca, counter |-> 0] :
     ch \in Challenges, v \in BOOLEAN, ca \in {"ca1", "ca2"}}
AuthResponses ==
  {[ch |-> ch, valid |-> v, ca |-> "", counter |-> n] :
     ch \in Challenges, v \in BOOLEAN, n \in Counters}

(***************************************************************************)
(* State machine: one input is drawn, a constructor is applied to it, and  *)
(* the resulting key (or the certificate) verifies a signature.            *)
(***************************************************************************)
VARIABLES pc, input, key, res, sig, msg, vres, raw, cpc, attcert, cres,
          bpc, cfg, builder, bres, last_name, wa, call, offer,
          sessions, counter, last, accepted

vars == <<pc, input, key, res, sig, msg, vres, raw, cpc, attcert, cres,
          bpc, cfg, builder, bres, last_name, wa, call, offer,
          sessions, counter, last, accepted>>
keyVars == <<pc, input, key, res, sig, msg, vres, raw>>
certVars == <<cpc, attcert, cres>>
rpVars == <<bpc, cfg, builder, bres, last_name, wa, call, offer,
           sessions, counter, last, accepted>>
\* the ceremony states that the caller keeps, the sign_count of the
\* credential that the caller stores, the last call of a ceremony and its
\* result, and the challenges whose state a finish_* has accepted
cerVars == <<sessions, counter, last, accepted>>

NoRes == [tag |-> "none", err |-> ""]
NoVRes == [tag |-> "none", err |-> "", b |-> FALSE]

CborInput(d) ==
  [mode |-> "cbor", d |-> d, alg |-> "none", cert |-> NoCert, stored |-> NoCose]
X509Input(a, c) ==
  [mode |-> "x509", d |-> NoCbor, alg |-> a, cert |-> c, stored |-> NoCose]
StoredInput(k) ==
  [mode |-> "stored", d |-> NoCbor, alg |-> "none", cert |-> NoCert, stored |-> k]

InitInput ==
  \/ input = CborInput([t |-> "text"])
  \/ \E a \in L1Vals, b \in L3Vals, c \in N1Vals, e \in N2Vals, f \in N3Vals :
       input = CborInput([t |-> "map", l1 |-> a, l3 |-> b, n1 |-> c,
                          n2 |-> e, n3 |-> f])
  \/ \E a \in COSEAlgorithms, nid \in CertNids :
       \E x \in BnSamples(nid), y \in BnSamples(nid) :
         input = X509Input(a, EcCert(nid, x, y))
  \/ \E a \in COSEAlgorithms, c \in {OtherCert("RSA"), OtherCert("ED25519"), NoCert} :
       input = X509Input(a, c)
  \/ \E k \in StoredKeys : input = StoredInput(k)

NoCfg == [rp_id |-> <<>>, rp_origin |-> Url("", "None", <<>>), danger |-> FALSE]
NoCall == [ca_list |-> NoCaList, core |-> ""]
NoLast ==
  [op |-> "", ch |-> "", rsp |-> NoRsp, res |-> FinRes("none", "", NoCaList, 0),
   again |-> FALSE, stored |-> FALSE, given |-> NoCaList]

\* no ceremony has been started
CerIdle ==
  /\ sessions = [c \in Challenges |-> NoSession]
  /\ counter = 0
  /\ last = NoLast
  /\ accepted = {}

\* no relying party is being configured
RpIdle ==
  /\ bpc = "idle"
  /\ cfg = NoCfg
  /\ builder = NoBuilder
  /\ bres = NoRes
  /\ last_name = <<>>
  /\ wa = NoWebauthn
  /\ call = NoCall
  /\ offer = NoOffer
  /\ CerIdle

\* no certificate is under examination
CertIdle ==
  /\ cpc = "idle"
  /\ attcert = NoX509
  /\ cres = NoRes

Init ==
  /\ pc = "start"
  /\ InitInput
  /\ key = NoCose
  /\ res = NoRes
  /\ sig = NoSig
  /\ msg = 0
  /\ vres = NoVRes
  /\ raw = NoRaw
  /\ CertIdle
  /\ RpIdle

Finish(r) ==
  /\ res' = [tag |-> r.tag, err |-> r.err]
  /\ key' = r.val
  /\ pc' = IF r.tag = "Ok" THEN "built" ELSE "failed"
  /\ UNCHANGED <<input, sig, msg, vres, raw>>
  /\ UNCHANGED <<certVars, rpVars>>

\* COSEKey::try_from(&serde_cbor_2::Value)
DecodeCbor ==
  /\ pc = "start"
  /\ input.mode = "cbor"
  /\ Finish(TryFromCbor(input.d))

\* COSEKey::try_from((COSEAlgorithm, &x509::X509))
ConvertX509 ==
  /\ pc = "start"
  /\ input.mode = "x509"
  /\ Finish(TryFromX509(input.alg, input.cert))

\* a COSEKey built field by field
LoadKey ==
  /\ pc = "start"
  /\ input.mode = "stored"
  /\ Finish(Ok(input.stored))

\* COSEKey::verify_signature on the key held
VerifySignature ==
  /\ pc = "built"
  /\ \E s \in Sigs, m \in Msgs :
       \E out \in CoseVerifySignature(key, s, m) :
         /\ sig' = s
         /\ msg' = m
         /\ vres' = out
  /\ pc' = "verified"
  /\ UNCHANGED <<input, key, res, raw>>
  /\ UNCHANGED <<certVars, rpVars>>

\* verify_signature(alg, certificate, signature, data)
VerifyX509Signature ==
  /\ pc = "start"
  /\ input.mode = "x509"
  /\ \E s \in Sigs, m \in Msgs :
       \E out \in X509VerifySignature(input.alg, input.cert, s, m) :
         /\ sig' = s
         /\ msg' = m
         /\ vres' = out
  /\ pc' = "xverified"
  /\ UNCHANGED <<input, key, res, raw>>
  /\ UNCHANGED <<certVars, rpVars>>

\* COSEKey::get_alg_key_ecc_x962_raw on the key held
GetX962Raw ==
  /\ pc = "built"
  /\ raw' = get_alg_key_ecc_x962_raw(key)
  /\ pc' = "raw"
  /\ UNCHANGED <<input, key, res, sig, msg, vres>>
  /\ UNCHANGED <<certVars, rpVars>>

\* only_hash_from_type(alg, input) on the algorithm of the attestation and a
\* message to hash
OnlyHashFromType ==
  /\ pc = "start"
  /\ input.mode = "x509"
  /\ \E m \in Msgs :
       /\ msg' = m
       /\ raw' = only_hash_from_type(input.alg, m)
  /\ pc' = "hashed"
  /\ UNCHANGED <<input, key, res, sig, vres>>
  /\ UNCHANGED <<certVars, rpVars>>

Next ==
  \/ DecodeCbor
  \/ ConvertX509
  \/ LoadKey
  \/ VerifySignature
  \/ VerifyX509Signature
  \/ GetX962Raw
  \/ OnlyHashFromType

Spec == Init /\ [][Next]_vars

(***************************************************************************)
(* State machine of the attestation certificate checks: one certificate    *)
(* is drawn and one of the two profile checks is applied to it.            *)
(***************************************************************************)
\* no key is under construction
KeyIdle ==
  /\ pc = "idle"
  /\ input = StoredInput(NoCose)
  /\ key = NoCose
  /\ res = NoRes
  /\ sig = NoSig
  /\ msg = 0
  /\ vres = NoVRes
  /\ raw = NoRaw

InitCert ==
  /\ KeyIdle
  /\ RpIdle
  /\ cpc = "start"
  /\ cres = NoRes
  /\ \/ attcert = X509(FALSE, FALSE, V3, <<>>, <<>>)
     \/ attcert = X509(TRUE, FALSE, V3, <<>>, <<>>)
     \/ \E v \in {1, V3}, sub \in Subjects, a \in AaguidOpts, b \in BcOpts,
           san \in SanOpts, eku \in EkuOpts :
          attcert = X509(TRUE, TRUE, v, sub, a \o b \o san \o eku)

\* assert_packed_attest_req(certificate)
AssertPackedAttestReq ==
  /\ cpc = "start"
  /\ cres' = assert_packed_attest_req(attcert)
  /\ cpc' = "packed"
  /\ UNCHANGED attcert
  /\ UNCHANGED <<keyVars, rpVars>>

\* assert_tpm_attest_req(certificate)
AssertTpmAttestReq ==
  /\ cpc = "start"
  /\ cres' = assert_tpm_attest_req(attcert)
  /\ cpc' = "tpm"
  /\ UNCHANGED attcert
  /\ UNCHANGED <<keyVars, rpVars>>

NextCert ==
  \/ AssertPackedAttestReq
  \/ AssertTpmAttestReq

SpecCert == InitCert /\ [][NextCert]_vars

(***************************************************************************)
(* State machine of the relying party: a builder is made from an rp_id     *)
(* and an origin, configured, and built; the instance starts ceremonies.   *)
(* cfg.danger says whether the crate is compiled with the feature          *)
(* danger-user-presence-only-security-keys; the features preview-features  *)
(* and resident-key-support are on.                                        *)
(***************************************************************************)
MaxOrigins == 2

InitRp ==
  /\ KeyIdle
  /\ CertIdle
  /\ bpc = "start"
  /\ \E id \in RpIds, o \in RpOrigins, d \in BOOLEAN :
       cfg = [rp_id |-> id, rp_origin |-> o, danger |-> d]
  /\ builder = NoBuilder
  /\ bres = NoRes
  /\ last_name = <<>>
  /\ wa = NoWebauthn
  /\ call = NoCall
  /\ offer = NoOffer
  /\ CerIdle

\* WebauthnBuilder::new(rp_id, rp_origin)
BuilderNew ==
  /\ bpc = "start"
  /\ LET r == WebauthnBuilderNew(cfg.rp_id, cfg.rp_origin)
     IN /\ builder' = r.val
        /\ bres' = [tag |-> r.tag, err |-> r.err]
        /\ bpc' = IF r.tag = "Ok" THEN "building" ELSE "failed"
  /\ UNCHANGED <<cfg, last_name, wa, call, offer>>
  /\ UNCHANGED <<keyVars, certVars, cerVars>>

\* builder.allow_subdomains(allow)
AllowSubdomains ==
  /\ bpc = "building"
  /\ \E allow \in BOOLEAN : builder' = allow_subdomains(builder, allow)
  /\ UNCHANGED <<bpc, cfg, bres, last_name, wa, call, offer>>
  /\ UNCHANGED <<keyVars, certVars, cerVars>>

\* builder.allow_any_port(allow)
AllowAnyPort ==
  /\ bpc = "building"
  /\ \E allow \in BOOLEAN : builder' = allow_any_port(builder, allow)
  /\ UNCHANGED <<bpc, cfg, bres, last_name, wa, call, offer>>
  /\ UNCHANGED <<keyVars, certVars, cerVars>>

\* builder.append_allowed_origin(origin)
AppendAllowedOrigin ==
  /\ bpc = "building"
  /\ Len(builder.allowed_origins) < MaxOrigins
  /\ \E origin \in ExtraOrigins : builder' = append_allowed_origin(builder, origin)
  /\ UNCHANGED <<bpc, cfg, bres, last_name, wa, call, offer>>
  /\ UNCHANGED <<keyVars, certVars, cerVars>>

\* builder.rp_name(name); last_name remembers the argument
RpName ==
  /\ bpc = "building"
  /\ \E name \in RpNames :
       /\ builder' = rp_name(builder, name)
       /\ last_name' = <<name>>
  /\ UNCHANGED <<bpc, cfg, bres, wa, call, offer>>
  /\ UNCHANGED <<keyVars, certVars, cerVars>>

\* builder.danger_set_user_presence_only_security_keys(enable), which exists
\* with the feature only
DangerSetUserPresenceOnlySecurityKeys ==
  /\ bpc = "building"
  /\ cfg.danger
  /\ \E enable \in BOOLEAN :
       builder' = danger_set_user_presence_only_security_keys(builder, enable)
  /\ UNCHANGED <<bpc, cfg, bres, last_name, wa, call, offer>>
  /\ UNCHANGED <<keyVars, certVars, cerVars>>

\* builder.build()
Build ==
  /\ bpc = "building"
  /\ wa' = build(builder)
  /\ bres' = [tag |-> "Ok", err |-> ""]
  /\ bpc' = "built"
  /\ UNCHANGED <<cfg, builder, last_name, call, offer>>
  /\ UNCHANGED <<keyVars, certVars, cerVars>>

\* a ceremony of the built instance has answered o to the call c
Started(c, o) ==
  /\ call' = c
  /\ offer' = o
  /\ UNCHANGED <<bpc, cfg, builder, bres, last_name, wa>>
  /\ UNCHANGED <<keyVars, certVars, cerVars>>

StartPasskeyRegistration ==
  /\ bpc = "built"
  /\ \E core \in CoreResults :
       Started([ca_list |-> NoCaList, core |-> core],
               start_passkey_registration(wa, core))

StartPasskeyAuthentication ==
  /\ bpc = "built"
  /\ \E core \in CoreResults :
       Started([ca_list |-> NoCaList, core |-> core],
               start_passkey_authentication(wa, core))

StartSecuritykeyRegistration ==
  /\ bpc = "built"
  /\ \E core \in CoreResults, ca_list \in OptionalCaLists :
       Started([ca_list |-> ca_list, core |-> core],
               start_securitykey_registration(wa, core, ca_list))

StartSecuritykeyAuthentication ==
  /\ bpc = "built"
  /\ \E core \in CoreResults :
       Started([ca_list |-> NoCaList, core |-> core],
               start_securitykey_authentication(wa, core))

StartAttestedPasskeyRegistration ==
  /\ bpc = "built"
  /\ \E core \in CoreResults, ca_list \in OptionalCaLists \ {NoCaList} :
       Started([ca_list |-> ca_list, core |-> core],
               start_attested_passkey_registration(wa, core, ca_list))

StartAttestedPasskeyAuthentication ==
  /\ bpc = "built"
  /\ \E core \in CoreResults :
       Started([ca_list |-> NoCaList, core |-> core],
               start_attested_passkey_authentication(wa, core))

StartAttestedResidentKeyRegistration ==
  /\ bpc = "built"
  /\ \E core \in CoreResults, ca_list \in OptionalCaLists \ {NoCaList} :
       Started([ca_list |-> ca_list, core |-> core],
               start_attested_resident_key_registration(wa, core, ca_list))

StartAttestedResidentKeyAuthentication ==
  /\ bpc = "built"
  /\ \E core \in CoreResults :
       Started([ca_list |-> NoCaList, core |-> core],
               start_attested_resident_key_authentication(wa, core))

NextRp ==
  \/ BuilderNew
  \/ AllowSubdomains
  \/ AllowAnyPort
  \/ AppendAllowedOrigin
  \/ RpName
  \/ DangerSetUserPresenceOnlySecurityKeys
  \/ Build
  \/ StartPasskeyRegistration
  \/ StartPasskeyAuthentication
  \/ StartSecuritykeyRegistration
  \/ StartSecuritykeyAuthentication
  \/ StartAttestedPasskeyRegistration
  \/ StartAttestedPasskeyAuthentication
  \/ StartAttestedResidentKeyRegistration
  \/ StartAttestedResidentKeyAuthentication

SpecRp == InitRp /\ [][NextRp]_vars

(***************************************************************************)
(* State machine of the ceremonies: a built instance starts ceremonies,    *)
(* the caller keeps the states that start_* returns and hands them, with   *)
(* a response of the user agent, to the finish_* of their kind, and        *)
(* stores the sign_count of a successful authentication.  The core draws   *)
(* a challenge that no state the caller keeps carries.                     *)
(***************************************************************************)
rpConfig == <<bpc, cfg, builder, bres, last_name, wa, call, offer>>

InitCeremony ==
  /\ KeyIdle
  /\ CertIdle
  /\ bpc = "built"
  /\ \E d \in BOOLEAN :
       /\ cfg = [rp_id |-> <<"example", ".", "com">>,
                 rp_origin |-> Url("https", "Domain",
                                   <<"idm", ".", "example", ".", "com">>),
                 danger |-> d]
       /\ builder = [WebauthnBuilderNew(cfg.rp_id, cfg.rp_origin).val
                       EXCEPT !.user_presence_only_security_keys = d]
  /\ bres = [tag |-> "Ok", err |-> ""]
  /\ last_name = <<>>
  /\ wa = build(builder)
  /\ call = NoCall
  /\ offer = NoOffer
  /\ sessions = [c \in Challenges |-> NoSession]
  /\ counter \in Counters
  /\ last = NoLast
  /\ accepted = {}

\* start_* has answered o; on Ok the caller keeps the state, which carries
\* the challenge ch and the credentials creds
BegunWith(op, ch, o, creds, ca_list) ==
  /\ sessions' = IF o.tag = "Ok"
                 THEN [sessions EXCEPT ![ch] = Session(ch, o, creds)]
                 ELSE sessions
  /\ accepted' = IF o.tag = "Ok" THEN accepted \ {ch} ELSE accepted
  /\ last' = [NoLast EXCEPT !.op = op,
                            !.ch = IF o.tag = "Ok" THEN ch ELSE "",
                            !.res = FinRes(o.tag, o.err, NoCaList, 0),
                            !.given = ca_list]
  /\ UNCHANGED counter
  /\ UNCHANGED rpConfig
  /\ UNCHANGED <<keyVars, certVars>>

\* a start_* that takes no attestation CA list
Begun(op, ch, o, creds) == BegunWith(op, ch, o, creds, NoCaList)

\* finish_* has answered r to the response rsp and the state of ch
Finished(op, ch, rsp, r) ==
  /\ last' = [op |-> op, ch |-> ch, rsp |-> rsp, res |-> r,
              again |-> ch \in accepted, stored |-> FALSE,
              given |-> NoCaList]
  /\ accepted' = IF r.tag = "Ok" THEN accepted \cup {ch} ELSE accepted
  /\ UNCHANGED counter
  /\ UNCHANGED rpConfig
  /\ UNCHANGED <<keyVars, certVars>>

\* the state of the challenge ch is one that the start_* of flow returned
Kept(ch, flow) == sessions[ch].live /\ sessions[ch].st.flow = flow

BeginPasskeyRegistration ==
  /\ bpc = "built"
  /\ \E ch \in Challenges, core \in CoreResults :
       /\ ~sessions[ch].live
       /\ Begun("start_passkey_registration", ch,
                start_passkey_registration(wa, core), <<>>)

FinishPasskeyRegistration ==
  /\ bpc = "built"
  /\ \E ch \in Challenges, reg \in RegResponses :
       /\ Kept(ch, "passkey_registration")
       /\ Finished("finish_passkey_registration", ch, reg,
                   finish_passkey_registration(wa, reg, sessions[ch]))
  /\ UNCHANGED sessions

BeginPasskeyAuthentication ==
  /\ bpc = "built"
  /\ \E ch \in Challenges, core \in CoreResults :
       /\ ~sessions[ch].live
       /\ Begun("start_passkey_authentication", ch,
                start_passkey_authentication(wa, core), <<counter>>)

\* finish_passkey_authentication taking the state from the caller
FinishPasskeyAuthentication_Consume ==
  /\ bpc = "built"
  /\ \E ch \in Challenges, reg \in AuthResponses :
       /\ Kept(ch, "passkey_authentication")
       /\ Finished("finish_passkey_authentication", ch, reg,
                   finish_passkey_authentication(wa, reg, sessions[ch]))
       /\ sessions' = [sessions EXCEPT ![ch] = NoSession]

FinishPasskeyAuthentication ==
  /\ bpc = "built"
  /\ \E ch \in Challenges, reg \in AuthResponses :
       /\ Kept(ch, "passkey_authentication")
       /\ Finished("finish_passkey_authentication", ch, reg,
                   finish_passkey_authentication(wa, reg, sessions[ch]))
  /\ UNCHANGED sessions

BeginSecuritykeyRegistration ==
  /\ bpc = "built"
  /\ \E ch \in Challenges, core \in CoreResults, ca_list \in OptionalCaLists :
       /\ ~sessions[ch].live
       /\ BegunWith("start_securitykey_registration", ch,
                    start_securitykey_registration(wa, core, ca_list), <<>>,
                    ca_list)

FinishSecuritykeyRegistration ==
  /\ bpc = "built"
  /\ \E ch \in Challenges, reg \in RegResponses :
       /\ Kept(ch, "securitykey_registration")
       /\ Finished("finish_securitykey_registration", ch, reg,
                   finish_securitykey_registration(wa, reg, sessions[ch]))
  /\ UNCHANGED sessions

BeginSecuritykeyAuthentication ==
  /\ bpc = "built"
  /\ \E ch \in Challenges, core \in CoreResults :
       /\ ~sessions[ch].live
       /\ Begun("start_securitykey_authentication", ch,
                start_securitykey_authentication(wa, core), <<counter>>)

\* finish_securitykey_authentication looking the credential up in the
\* caller's store instead of in the state
FinishSecuritykeyAuthentication_Shared ==
  /\ bpc = "built"
  /\ \E ch \in Challenges, reg \in AuthResponses :
       /\ Kept(ch, "securitykey_authentication")
       /\ Finished("finish_securitykey_authentication", ch, reg,
                   authenticate_credential(reg, [sessions[ch] EXCEPT
                                                   !.creds = <<counter>>]))
  /\ UNCHANGED sessions

FinishSecuritykeyAuthentication ==
  /\ bpc = "built"
  /\ \E ch \in Challenges, reg \in AuthResponses :
       /\ Kept(ch, "securitykey_authentication")
       /\ Finished("finish_securitykey_authentication", ch, reg,
                   finish_securitykey_authentication(wa, reg, sessions[ch]))
  /\ UNCHANGED sessions

BeginAttestedPasskeyRegistration ==
  /\ bpc = "built"
  /\ \E ch \in Challenges, core \in CoreResults,
        ca_list \in OptionalCaLists \ {NoCaList} :
       /\ ~sessions[ch].live
       /\ BegunWith("start_attested_passkey_registration", ch,
                    start_attested_passkey_registration(wa, core, ca_list), <<>>,
                    ca_list)

FinishAttestedPasskeyRegistration ==
  /\ bpc = "built"
  /\ \E ch \in Challenges, reg \in RegResponses :
       /\ Kept(ch, "attested_passkey_registration")
       /\ Finished("finish_attested_passkey_registration", ch, reg,
                   finish_attested_passkey_registration(wa, reg, sessions[ch]))
  /\ UNCHANGED sessions

BeginAttestedPasskeyAuthentication ==
  /\ bpc = "built"
  /\ \E ch \in Challenges, core \in CoreResults :
       /\ ~sessions[ch].live
       /\ Begun("start_attested_passkey_authentication", ch,
                start_attested_passkey_authentication(wa, core), <<counter>>)

FinishAttestedPasskeyAuthentication ==
  /\ bpc = "built"
  /\ \E ch \in Challenges, reg \in AuthResponses :
       /\ Kept(ch, "attested_passkey_authentication")
       /\ Finished("finish_attested_passkey_authentication", ch, reg,
                   finish_attested_passkey_authentication(wa, reg, sessions[ch]))
  /\ UNCHANGED sessions

BeginDiscoverableAuthentication ==
  /\ bpc = "built"
  /\ \E ch \in Challenges, core \in CoreResults :
       /\ ~sessions[ch].live
       /\ Begun("start_discoverable_authentication", ch,
                start_discoverable_authentication(wa, core), <<>>)

\* the state is moved into the call: the caller does not keep it
FinishDiscoverableAuthentication ==
  /\ bpc = "built"
  /\ \E ch \in Challenges, reg \in AuthResponses :
       /\ Kept(ch, "discoverable_authentication")
       /\ Finished("finish_discoverable_authentication", ch, reg,
                   finish_discoverable_authentication(wa, reg, sessions[ch],
                                                      <<counter>>))
       /\ sessions' = [sessions EXCEPT ![ch] = NoSession]

BeginAttestedResidentKeyRegistration ==
  /\ bpc = "built"
  /\ \E ch \in Challenges, core \in CoreResults,
        ca_list \in OptionalCaLists \ {NoCaList} :
       /\ ~sessions[ch].live
       /\ BegunWith("start_attested_resident_key_registration", ch,
                    start_attested_resident_key_registration(wa, core, ca_list), <<>>,
                    ca_list)

FinishAttestedResidentKeyRegistration ==
  /\ bpc = "built"
  /\ \E ch \in Challenges, reg \in RegResponses :
       /\ Kept(ch, "attested_resident_key_registration")
       /\ Finished("finish_attested_resident_key_registration", ch, reg,
                   finish_attested_resident_key_registration(wa, reg,
                                                             sessions[ch]))
  /\ UNCHANGED sessions

BeginAttestedResidentKeyAuthentication ==
  /\ bpc = "built"
  /\ \E ch \in Challenges, core \in CoreResults :
       /\ ~sessions[ch].live
       /\ Begun("start_attested_resident_key_authentication", ch,
                start_attested_resident_key_authentication(wa, core),
                <<counter>>)

FinishAttestedResidentKeyAuthentication ==
  /\ bpc = "built"
  /\ \E ch \in Challenges, reg \in AuthResponses :
       /\ Kept(ch, "attested_resident_key_authentication")
       /\ Finished("finish_attested_resident_key_authentication", ch, reg,
                   finish_attested_resident_key_authentication(wa, reg,
                                                               sessions[ch]))
  /\ UNCHANGED sessions

AuthFinishOps ==
  {"finish_passkey_authentication", "finish_securitykey_authentication",
   "finish_attested_passkey_authentication",
   "finish_discoverable_authentication",
   "finish_attested_resident_key_authentication"}

\* the caller stores the sign_count of the AuthenticationResult in the
\* credential
UpdateCredential ==
  /\ bpc = "built"
  /\ last.op \in AuthFinishOps
  /\ last.res.tag = "Ok"
  /\ ~last.stored
  /\ counter' = last.res.sign_count
  /\ last' = [last EXCEPT !.stored = TRUE]
  /\ UNCHANGED <<sessions, accepted>>
  /\ UNCHANGED rpConfig
  /\ UNCHANGED <<keyVars, certVars>>

NextCeremony ==
  \/ BeginPasskeyRegistration
  \/ FinishPasskeyRegistration
  \/ BeginPasskeyAuthentication
  \/ FinishPasskeyAuthentication
  \/ BeginSecuritykeyRegistration
  \/ FinishSecuritykeyRegistration
  \/ BeginSecuritykeyAuthentication
  \/ FinishSecuritykeyAuthentication
  \/ BeginAttestedPasskeyRegistration
  \/ FinishAttestedPasskeyRegistration
  \/ BeginAttestedPasskeyAuthentication
  \/ FinishAttestedPasskeyAuthentication
  \/ BeginDiscoverableAuthentication
  \/ FinishDiscoverableAuthentication
  \/ BeginAttestedResidentKeyRegistration
  \/ FinishAttestedResidentKeyRegistration
  \/ BeginAttestedResidentKeyAuthentication
  \/ FinishAttestedResidentKeyAuthentication
  \/ UpdateCredential

SpecCeremony == InitCeremony /\ [][NextCeremony]_vars

(***************************************************************************)
(* Properties of the COSE key constructors and of signature verification.  *)
(***************************************************************************)
\* the CBOR decoder has run on the input
Decoded == pc \in {"built", "failed"} /\ input.mode = "cbor"
DecodedMap == Decoded /\ input.d.t = "map"
\* the X.509 conversion has run on the input
Converted == pc \in {"built", "failed"} /\ input.mode = "x509"

\* labels 1 and 3 are integers and label 3 is a known algorithm id
HeadOk ==
  /\ DecodedMap
  /\ input.d.l1.t = "int"
  /\ input.d.l3.t = "int"
  /\ COSEAlgorithmTryFrom(input.d.l3.v) # "invalid"
InKty == input.d.l1.v
InAlg == COSEAlgorithmTryFrom(input.d.l3.v)

\* the consistency table of key types and algorithms
AllowedPairs ==
  {<<EC_EC2, "ES256">>, <<EC_EC2, "ES384">>, <<EC_EC2, "ES512">>,
   <<EC_RSA, "RS256">>, <<EC_OKP, "EDDSA">>}

EsAlgs == {"ES256", "ES384", "ES512"}

\* the curve that WebAuthn pairs with an ECDSA algorithm
CurveOfAlg(alg) ==
  CASE alg = "ES256" -> "SECP256R1"
    [] alg = "ES384" -> "SECP384R1"
    [] alg = "ES512" -> "SECP521R1"
    [] OTHER -> "none"

SchemeOfAlg(alg) ==
  CASE alg = "ES256" -> <<"ecdsa", "sha256">>
    [] alg = "ES384" -> <<"ecdsa", "sha384">>
    [] alg = "ES512" -> <<"ecdsa", "sha512">>
    [] alg = "RS256" -> <<"pkcs1", "sha256">>
    [] alg = "PS256" -> <<"pss", "sha256">>
    [] alg = "PS384" -> <<"pss", "sha384">>
    [] alg = "PS512" -> <<"pss", "sha512">>
    [] OTHER -> <<"", "">>
VerifiableAlgs == {"ES256", "ES384", "ES512", "RS256", "PS256", "PS384", "PS512"}
PKeyKindOfAlg(alg) == IF alg \in EsAlgs THEN "EC" ELSE "RSA"

\* the outcome of a verification under alg with a key of the matching type:
\* never "unsupported key type", and true for a signature made with the
\* private key under alg's scheme over the verified message
RealCheck(alg) ==
  /\ vres.err # "COSEKeyInvalidType"
  /\ (sig.t = "sig" /\ sig.by = "self" /\ sig.scheme = SchemeOfAlg(alg)
        /\ sig.msg = msg)
       => vres = VOk(TRUE)

\* C2: signature verification performs a real check for each of ES256, ES384,
\* ES512, RS256, PS256, PS384, PS512 given a key of the matching type; none of
\* them is rejected as an unsupported key type, and a valid signature verifies.
C2_AllAlgorithmsVerify ==
  /\ (pc = "verified" /\ key.type_ \in VerifiableAlgs
        /\ get_openssl_pkey(key).tag = "Ok"
        /\ get_openssl_pkey(key).pkey.kind = PKeyKindOfAlg(key.type_))
       => RealCheck(key.type_)
  /\ (pc = "xverified" /\ input.alg \in VerifiableAlgs
        /\ X509PublicKey(input.cert).tag = "Ok"
        /\ X509PublicKey(input.cert).pkey.kind = PKeyKindOfAlg(input.alg))
       => RealCheck(input.alg)

\* C3: verification under INSECURE_RS1 returns CredentialInsecureCryptography
\* whatever the key material, the signature and the message are, for
\* COSEKey::verify_signature and for the X.509 verify_signature.
C3_InsecureAlwaysRejected ==
  /\ (pc = "verified" /\ key.type_ = "INSECURE_RS1")
       => vres = VErr("CredentialInsecureCryptography")
  /\ (pc = "xverified" /\ input.alg = "INSECURE_RS1")
       => vres = VErr("CredentialInsecureCryptography")

\* a map of key type OKP, algorithm EDDSA, a known curve and a 32-byte x
OkpWellFormed ==
  /\ HeadOk
  /\ InKty = EC_OKP
  /\ InAlg = "EDDSA"
  /\ input.d.n1.t = "int"
  /\ EDDSACurveTryFrom(input.d.n1.v) # "invalid"
  /\ input.d.n2.t = "bytes"
  /\ input.d.n2.v.len = OkpXLen

\* C4 as stated: decoding a well-formed OKP map succeeds and returns a key
\* with EC_OKP key material.
C4_OkpDecodeSucceeds ==
  OkpWellFormed => (res.tag = "Ok" /\ key.key.kind = "EC_OKP")

\* C4 amended: decoding a well-formed OKP map fails with COSEKeyEDUnsupported
\* and returns no key; the decoder never returns a key with EC_OKP material.
C4_OkpRejectedAtParse ==
  /\ OkpWellFormed
       => (pc = "failed" /\ res.err = "COSEKeyEDUnsupported"
             /\ key.key.kind = "none")
  /\ (pc = "built" /\ input.mode = "cbor") => key.key.kind # "EC_OKP"

C4_Witness ==
  OkpWellFormed /\ pc = "failed" /\ res.err = "COSEKeyEDUnsupported"

\* C5: COSEKey::verify_signature on an EDDSA key with OKP material fails with
\* COSEKeyEDUnsupported for every signature and message.
C5_EddsaVerifyEdUnsupported ==
  (pc = "verified" /\ key.type_ = "EDDSA" /\ key.key.kind = "EC_OKP")
    => vres = VErr("COSEKeyEDUnsupported")

\* C6: the decoder can succeed only for a (key type, algorithm) pair of the
\* consistency table; every other pair of a key type and a known algorithm
\* fails with COSEKeyInvalidType.
C6_PairTable ==
  /\ (Decoded /\ res.tag = "Ok")
       => (HeadOk /\ <<InKty, InAlg>> \in AllowedPairs)
  /\ (HeadOk /\ <<InKty, InAlg>> \notin AllowedPairs)
       => (pc = "failed" /\ res.err = "COSEKeyInvalidType")

C6_Witness ==
  /\ HeadOk
  /\ InKty = EC_RSA
  /\ InAlg = "PS256"
  /\ input.d.n1.t = "bytes" /\ input.d.n1.v.len = RsaNLen
  /\ input.d.n2.t = "bytes" /\ input.d.n2.v.len = RsaELen
  /\ res.err = "COSEKeyInvalidType"

\* a per-key-type label of the key type in label 1 is missing
PerTypeLabelMissing ==
  /\ input.d.l1.t = "int"
  /\ \/ InKty = EC_EC2 /\ "absent" \in {input.d.n1.t, input.d.n2.t, input.d.n3.t}
     \/ InKty = EC_RSA /\ "absent" \in {input.d.n1.t, input.d.n2.t}
     \/ InKty = EC_OKP /\ "absent" \in {input.d.n1.t, input.d.n2.t}

\* label -1 of an EC2 map is an integer that is no curve id
Ec2CurveUnknown ==
  /\ InKty = EC_EC2
  /\ input.d.n1.t = "int"
  /\ ECDSACurveTryFrom(input.d.n1.v) = "invalid"

\* C7 as stated: a map that is missing a required label fails with
\* COSEKeyInvalidCBORValue, whatever the labels that are present hold.
C7_MissingLabelAlwaysCborValue ==
  (DecodedMap /\ ("absent" \in {input.d.l1.t, input.d.l3.t} \/ PerTypeLabelMissing))
    => res.err = "COSEKeyInvalidCBORValue"

\* C7 amended: a map that is missing label 1 or label 3 fails with
\* COSEKeyInvalidCBORValue; so does a map with an allowed (key type,
\* algorithm) pair that is missing a per-key-type label, unless it is an EC2
\* map whose label -1 is an integer that is no curve id, which fails with
\* COSEKeyECDSAInvalidCurve.
C7_MissingLabelFirstFailure ==
  /\ (DecodedMap /\ "absent" \in {input.d.l1.t, input.d.l3.t})
       => (pc = "failed" /\ res.err = "COSEKeyInvalidCBORValue")
  /\ (HeadOk /\ <<InKty, InAlg>> \in AllowedPairs /\ PerTypeLabelMissing
        /\ ~Ec2CurveUnknown)
       => (pc = "failed" /\ res.err = "COSEKeyInvalidCBORValue")
  /\ (HeadOk /\ <<InKty, InAlg>> \in AllowedPairs /\ PerTypeLabelMissing
        /\ Ec2CurveUnknown)
       => (pc = "failed" /\ res.err = "COSEKeyECDSAInvalidCurve")

C7_Witness ==
  /\ HeadOk
  /\ <<InKty, InAlg>> = <<EC_OKP, "EDDSA">>
  /\ input.d.n1.t = "int" /\ EDDSACurveTryFrom(input.d.n1.v) = "invalid"
  /\ input.d.n2.t = "absent"
  /\ res.err = "COSEKeyInvalidCBORValue"

\* C8: an EC2 key built by either constructor has |x| = |y| =
\* coordinate_size(curve); an input whose x or y has another length is
\* rejected with COSEKeyECDSAXYInvalid and no key is returned.
C8_Ec2CoordinateSize ==
  /\ (pc = "built" /\ input.mode \in {"cbor", "x509"} /\ key.key.kind = "EC_EC2")
       => /\ key.key.x.len = coordinate_size(key.key.curve)
          /\ key.key.y.len = coordinate_size(key.key.curve)
  /\ (HeadOk /\ InKty = EC_EC2 /\ InAlg \in EsAlgs
        /\ input.d.n1.t = "int" /\ ECDSACurveTryFrom(input.d.n1.v) # "invalid"
        /\ input.d.n2.t = "bytes" /\ input.d.n3.t = "bytes"
        /\ \/ input.d.n2.v.len # coordinate_size(ECDSACurveTryFrom(input.d.n1.v))
           \/ input.d.n3.v.len # coordinate_size(ECDSACurveTryFrom(input.d.n1.v)))
       => (pc = "failed" /\ res.err = "COSEKeyECDSAXYInvalid"
             /\ key.key.kind = "none")
  /\ (Converted /\ input.alg \in EsAlgs /\ input.cert.pk = "EC"
        /\ BackendEcKeyOk(input.cert.nid, input.cert.x, input.cert.y)
        /\ ECDSACurveFromNid(input.cert.nid) # "invalid"
        /\ \/ input.cert.x.n # coordinate_size(ECDSACurveFromNid(input.cert.nid))
           \/ input.cert.y.n # coordinate_size(ECDSACurveFromNid(input.cert.nid)))
       => (pc = "failed" /\ res.err = "COSEKeyECDSAXYInvalid"
             /\ key.key.kind = "none")

C8_Witness ==
  /\ Converted
  /\ pc = "built"
  /\ key.key.kind = "EC_EC2"
  /\ key.key.curve = "SECP521R1"
  /\ key.key.x.len = P521Size

\* C9: an RSA key returned by the CBOR decoder has |n| = 256 and |e| = 3; an
\* (RSA, RS256) map whose n is not 256 bytes or whose e is not 3 bytes is
\* rejected with COSEKeyRSANEInvalid.
C9_RsaLengths ==
  /\ (pc = "built" /\ input.mode = "cbor" /\ key.key.kind = "RSA")
       => (key.key.n.len = 256 /\ key.key.e.len = 3)
  /\ (HeadOk /\ InKty = EC_RSA /\ InAlg = "RS256"
        /\ input.d.n1.t = "bytes" /\ input.d.n2.t = "bytes"
        /\ (input.d.n1.v.len # 256 \/ input.d.n2.v.len # 3))
       => (pc = "failed" /\ res.err = "COSEKeyRSANEInvalid"
             /\ key.key.kind = "none")

C9_Witness ==
  /\ HeadOk
  /\ InKty = EC_RSA /\ InAlg = "RS256"
  /\ input.d.n1.t = "bytes" /\ input.d.n1.v.len = 255
  /\ input.d.n2.t = "bytes" /\ input.d.n2.v.len = 3
  /\ res.err = "COSEKeyRSANEInvalid"

\* C10: every key returned by the CBOR decoder has passed COSEKey::validate,
\* and an EC2 map whose point the backend does not accept on the map's curve
\* yields an error and no key.
C10_ValidatedBeforeReturn ==
  /\ (pc = "built" /\ input.mode = "cbor") => validate(key).tag = "Ok"
  /\ (HeadOk /\ InKty = EC_EC2 /\ InAlg \in EsAlgs
        /\ input.d.n1.t = "int" /\ ECDSACurveTryFrom(input.d.n1.v) # "invalid"
        /\ input.d.n2.t = "bytes" /\ input.d.n3.t = "bytes"
        /\ ~BackendEcKeyOk(to_openssl_nid(ECDSACurveTryFrom(input.d.n1.v)),
                           BigNumFromSlice(input.d.n2.v),
                           BigNumFromSlice(input.d.n3.v)))
       => (pc = "failed" /\ key.key.kind = "none")

C10_Witness ==
  /\ HeadOk
  /\ InKty = EC_EC2 /\ InAlg = "ES256"
  /\ input.d.n1.t = "int" /\ ECDSACurveTryFrom(input.d.n1.v) = "SECP256R1"
  /\ input.d.n2.t = "bytes" /\ input.d.n2.v.len = P256Size
  /\ input.d.n3.t = "bytes" /\ input.d.n3.v.len = P256Size
  /\ pc = "failed"
  /\ res.err = "OpenSSLError"


\* an EC2 map of the shape of the fixtures of tests::cbor_es256, cbor_es384
\* and cbor_es512: an ECDSA algorithm, its own curve, and two coordinates of
\* the curve's size that the backend accepts as a point of the curve
Ec2WellFormed ==
  /\ HeadOk
  /\ InKty = EC_EC2 /\ InAlg \in EsAlgs
  /\ input.d.n1.t = "int"
  /\ ECDSACurveTryFrom(input.d.n1.v) = CurveOfAlg(InAlg)
  /\ input.d.n2.t = "bytes" /\ input.d.n3.t = "bytes"
  /\ input.d.n2.v.len = coordinate_size(CurveOfAlg(InAlg))
  /\ input.d.n3.v.len = coordinate_size(CurveOfAlg(InAlg))
  /\ BackendEcKeyOk(to_openssl_nid(CurveOfAlg(InAlg)),
                    BigNumFromSlice(input.d.n2.v), BigNumFromSlice(input.d.n3.v))

\* C11: for every well-formed EC2 map (ES256/P-256, ES384/P-384, ES512/P-521
\* with on-curve coordinates of the curve's size) COSEKey::try_from succeeds
\* and the key carries the map's fields unchanged: type_ is the algorithm of
\* label 3, curve the curve of label -1, x and y the very bytes of labels -2
\* and -3 (same length, same leading zero bytes, not exchanged).
C11_Ec2FieldsUnchanged ==
  Ec2WellFormed
    => /\ pc = "built" /\ res.tag = "Ok"
       /\ key.type_ = InAlg
       /\ key.key.kind = "EC_EC2"
       /\ key.key.curve = ECDSACurveTryFrom(input.d.n1.v)
       /\ key.key.x = input.d.n2.v
       /\ key.key.y = input.d.n3.v

\* the ES512 fixture: y starts with a zero byte, x does not
C11_Witness ==
  /\ Ec2WellFormed
  /\ InAlg = "ES512"
  /\ input.d.n2.v.lz = 0
  /\ input.d.n3.v.lz = 1
  /\ pc = "built"
  /\ key.key.y.len = P521Size /\ key.key.y.lz = 1


\* the key that the constructor applied to the input returned
BuiltKey ==
  CASE input.mode = "cbor" -> TryFromCbor(input.d).val
    [] input.mode = "x509" -> TryFromX509(input.alg, input.cert).val
    [] input.mode = "stored" -> input.stored

\* C12: COSEKey::get_alg_key_ecc_x962_raw returns exactly the byte 0x04, then
\* x, then y (1 + 2 * coordinate_size(curve) bytes) for every key with EC2
\* material, fails with COSEKeyInvalidType for RSA and OKP material, and
\* leaves the key as it was.
C12_X962Raw ==
  pc = "raw"
    => /\ key = BuiltKey
       /\ key.key.kind = "EC_EC2"
            => /\ raw.tag = "Ok"
               /\ Len(raw.bytes) = 3
               /\ raw.bytes[1] = X962Uncompressed
               /\ raw.bytes[2] = key.key.x
               /\ raw.bytes[3] = key.key.y
               /\ ChainLen(raw.bytes) = 1 + 2 * coordinate_size(key.key.curve)
       /\ key.key.kind \in {"RSA", "EC_OKP"}
            => (raw.tag = "Err" /\ raw.err = "COSEKeyInvalidType")

\* a P-521 key whose y starts with a zero byte and whose x does not: 133
\* bytes come back
C12_Witness ==
  /\ pc = "raw"
  /\ key.key.kind = "EC_EC2"
  /\ key.key.curve = "SECP521R1"
  /\ key.key.x.lz = 0 /\ key.key.y.lz = 1
  /\ raw.tag = "Ok"
  /\ ChainLen(raw.bytes) = 133


\* the extensions of a certificate with a given oid, as a set of positions
ExtsOf(c, oid) == {i \in 1..Len(c.extensions) : c.extensions[i].oid = oid}
\* the extension of that oid when the certificate has exactly one
TheExt(c, oid) == c.extensions[CHOOSE i \in ExtsOf(c, oid) : TRUE]
\* the values of the attributes of a type in a name, in the name's order
ValuesOf(name, type) == SelectSeq(name, LAMBDA a : a.type = type)

\* the Basic Constraints extension is present with CA = false
BasicConstraintsNotCa(c) ==
  /\ Cardinality(ExtsOf(c, OID_X509_EXT_BASIC_CONSTRAINTS)) = 1
  /\ TheExt(c, OID_X509_EXT_BASIC_CONSTRAINTS).v.ok
  /\ ~TheExt(c, OID_X509_EXT_BASIC_CONSTRAINTS).v.ca

\* the requirements of the packed profile, read off the certificate
PackedRequirements(c) ==
  /\ c.version = 3
  /\ \A t \in {"C", "O", "CN"} : ValuesOf(c.subject, t) # <<>>
  /\ ValuesOf(c.subject, "OU") # <<>>
  /\ ValuesOf(c.subject, "OU")[1].str
  /\ ValuesOf(c.subject, "OU")[1].s = "Authenticator Attestation"
  /\ BasicConstraintsNotCa(c)
  /\ \/ ExtsOf(c, FidoGenCeAaguidOID) = {}
     \/ /\ Cardinality(ExtsOf(c, FidoGenCeAaguidOID)) = 1
        /\ ~TheExt(c, FidoGenCeAaguidOID).critical

\* C13: on a parsable certificate assert_packed_attest_req returns Ok if and
\* only if the version is 3, the subject has a C, an O and a CN, the
\* subject's (first) OU is the string "Authenticator Attestation", the Basic
\* Constraints extension is there (once) with CA = false, and the
\* id-fido-gen-ce-aaguid extension is absent or there (once) and not
\* critical; every other parsable certificate is answered with
\* AttestationCertificateRequirementsNotMet.
C13_PackedProfile ==
  (cpc = "packed" /\ attcert.encodes /\ attcert.parsable)
    => /\ cres.tag = "Ok" <=> PackedRequirements(attcert)
       /\ ~PackedRequirements(attcert)
            => (cres.tag = "Err"
                  /\ cres.err = "AttestationCertificateRequirementsNotMet")

\* the certificate of the spec's example: everything in order but OU = "Other"
C13_Witness ==
  /\ cpc = "packed"
  /\ attcert.parsable /\ attcert.version = 3
  /\ ValuesOf(attcert.subject, "OU") = <<Attr("OU", TRUE, "Other")>>
  /\ \A t \in {"C", "O", "CN"} : ValuesOf(attcert.subject, t) # <<>>
  /\ BasicConstraintsNotCa(attcert)
  /\ ExtsOf(attcert, FidoGenCeAaguidOID) = {}
  /\ cres.err = "AttestationCertificateRequirementsNotMet"

\* a directoryName that carries the three TCG attributes as strings and
\* whose manufacturer (the last one, if it has several) is a known vendor
TpmDirectoryName(gn) ==
  /\ gn.kind = "DirectoryName"
  /\ \A i \in 1..Len(gn.name) :
       gn.name[i].type \in {TCG_AT_TPM_MANUFACTURER_RAW, TCG_AT_TPM_MODEL_RAW,
                            TCG_AT_TPM_VERSION_RAW} => gn.name[i].str
  /\ ValuesOf(gn.name, TCG_AT_TPM_MODEL_RAW) # <<>>
  /\ ValuesOf(gn.name, TCG_AT_TPM_VERSION_RAW) # <<>>
  /\ ValuesOf(gn.name, TCG_AT_TPM_MANUFACTURER_RAW) # <<>>
  /\ LET ms == ValuesOf(gn.name, TCG_AT_TPM_MANUFACTURER_RAW)
     IN ms[Len(ms)].s \in {"id:494E5443", "id:FFFFF1D0"}

\* the requirements of the TPM profile, read off the certificate
TpmRequirements(c) ==
  /\ c.version = 3
  /\ c.subject = <<>>
  /\ Cardinality(ExtsOf(c, OID_X509_EXT_SUBJECT_ALT_NAME)) = 1
  /\ LET san == TheExt(c, OID_X509_EXT_SUBJECT_ALT_NAME)
     IN /\ san.v.ok
        /\ san.critical
        /\ \E i \in 1..Len(san.v.general_names) :
             TpmDirectoryName(san.v.general_names[i])
  /\ Cardinality(ExtsOf(c, OID_X509_EXT_EXTENDED_KEY_USAGE)) = 1
  /\ TheExt(c, OID_X509_EXT_EXTENDED_KEY_USAGE).v.ok
  /\ "2.23.133.8.3" \in TheExt(c, OID_X509_EXT_EXTENDED_KEY_USAGE).v.other
  /\ BasicConstraintsNotCa(c)

\* C14: on a parsable certificate assert_tpm_attest_req returns Ok if and
\* only if the version is 3, the subject is empty, the Subject Alternative
\* Name extension is there (once), critical, with a directoryName that has
\* the TCG manufacturer, model and version attributes and a manufacturer of
\* a known TPM vendor, the Extended Key Usage extension is there (once) and
\* contains 2.23.133.8.3, and the Basic Constraints extension is there
\* (once) with CA = false; every other parsable certificate is answered
\* with AttestationCertificateRequirementsNotMet.
C14_TpmProfile ==
  (cpc = "tpm" /\ attcert.encodes /\ attcert.parsable)
    => /\ cres.tag = "Ok" <=> TpmRequirements(attcert)
       /\ ~TpmRequirements(attcert)
            => (cres.tag = "Err"
                  /\ cres.err = "AttestationCertificateRequirementsNotMet")

\* the certificate of the spec's example: everything in order but the
\* manufacturer "id:DEADBEEF"
C14_Witness ==
  /\ cpc = "tpm"
  /\ attcert.parsable /\ attcert.version = 3 /\ attcert.subject = <<>>
  /\ Cardinality(ExtsOf(attcert, OID_X509_EXT_SUBJECT_ALT_NAME)) = 1
  /\ TheExt(attcert, OID_X509_EXT_SUBJECT_ALT_NAME).critical
  /\ TheExt(attcert, OID_X509_EXT_SUBJECT_ALT_NAME).v.general_names
       = <<DirectoryName(<<TcgAttr(TCG_AT_TPM_MANUFACTURER_RAW, "id:DEADBEEF"),
                           TcgAttr(TCG_AT_TPM_MODEL_RAW, "NPCT6xx"),
                           TcgAttr(TCG_AT_TPM_VERSION_RAW, "id:13")>>)>>
  /\ Cardinality(ExtsOf(attcert, OID_X509_EXT_EXTENDED_KEY_USAGE)) = 1
  /\ "2.23.133.8.3" \in TheExt(attcert, OID_X509_EXT_EXTENDED_KEY_USAGE).v.other
  /\ BasicConstraintsNotCa(attcert)
  /\ cres.err = "AttestationCertificateRequirementsNotMet"


\* what the TPM profile asks of a certificate besides the Subject
\* Alternative Name
TpmRequirementsBesidesSan(c) ==
  /\ c.version = 3
  /\ c.subject = <<>>
  /\ Cardinality(ExtsOf(c, OID_X509_EXT_EXTENDED_KEY_USAGE)) = 1
  /\ TheExt(c, OID_X509_EXT_EXTENDED_KEY_USAGE).v.ok
  /\ "2.23.133.8.3" \in TheExt(c, OID_X509_EXT_EXTENDED_KEY_USAGE).v.other
  /\ BasicConstraintsNotCa(c)

\* a directoryName without the model or without the version attribute
LacksModelOrVersion(gn) ==
  /\ gn.kind = "DirectoryName"
  /\ \/ ValuesOf(gn.name, TCG_AT_TPM_MODEL_RAW) = <<>>
     \/ ValuesOf(gn.name, TCG_AT_TPM_VERSION_RAW) = <<>>

\* C24: on a certificate that meets the rest of the TPM profile, the
\* check of the (one, decodable) Subject Alternative Name extension passes
\* if and only if the extension is critical and one of its general names
\* is a directoryName whose TCG attributes are strings, that has the
\* manufacturer, the model and the version attribute, and whose
\* manufacturer is a known TPM vendor.  A directoryName without the model
\* or the version never satisfies it, and the other general names do not
\* matter once one satisfies it.
C24_SanCheck ==
  (cpc = "tpm" /\ attcert.encodes /\ attcert.parsable
     /\ TpmRequirementsBesidesSan(attcert)
     /\ Cardinality(ExtsOf(attcert, OID_X509_EXT_SUBJECT_ALT_NAME)) = 1
     /\ TheExt(attcert, OID_X509_EXT_SUBJECT_ALT_NAME).v.ok)
    => LET san == TheExt(attcert, OID_X509_EXT_SUBJECT_ALT_NAME)
           names == san.v.general_names
           good == {i \in 1..Len(names) : TpmDirectoryName(names[i])}
       IN /\ cres.tag = "Ok" <=> (san.critical /\ good # {})
          /\ \A i \in 1..Len(names) : LacksModelOrVersion(names[i]) => i \notin good
          /\ (\A i \in 1..Len(names) :
                 names[i].kind = "DirectoryName" => LacksModelOrVersion(names[i]))
               => cres.tag = "Err"

\* the check has passed on an extension whose first directoryName has an
\* unknown manufacturer and whose second one satisfies it
C24_Witness ==
  /\ cpc = "tpm"
  /\ cres.tag = "Ok"
  /\ Cardinality(ExtsOf(attcert, OID_X509_EXT_SUBJECT_ALT_NAME)) = 1
  /\ LET names == TheExt(attcert, OID_X509_EXT_SUBJECT_ALT_NAME).v.general_names
     IN /\ Len(names) = 2
        /\ ~TpmDirectoryName(names[1])
        /\ names[1].kind = "DirectoryName"
        /\ TpmDirectoryName(names[2])

\* the extensions that the check of this state examines
ExaminedOids ==
  IF cpc = "packed"
  THEN {FidoGenCeAaguidOID, OID_X509_EXT_BASIC_CONSTRAINTS}
  ELSE {OID_X509_EXT_SUBJECT_ALT_NAME, OID_X509_EXT_EXTENDED_KEY_USAGE,
        OID_X509_EXT_BASIC_CONSTRAINTS}
\* a check has run on a certificate that parses
CertChecked == cpc \in {"packed", "tpm"} /\ attcert.encodes /\ attcert.parsable
\* the certificate gets as far as the first extension that is examined
ReachesExtensions ==
  /\ attcert.version = 3
  /\ IF cpc = "tpm" THEN attcert.subject = <<>>
     ELSE /\ \A t \in {"C", "O", "CN"} : ValuesOf(attcert.subject, t) # <<>>
          /\ ValuesOf(attcert.subject, "OU")
               = <<Attr("OU", TRUE, "Authenticator Attestation")>>
\* the extension that is examined first
FirstExamined ==
  IF cpc = "packed" THEN FidoGenCeAaguidOID ELSE OID_X509_EXT_SUBJECT_ALT_NAME

\* C25 as stated: a check that meets an extension that is there more than
\* once fails with an error other than the one for an extension that is
\* absent though required or that fails its predicate.
C25_DuplicateHasOwnError ==
  (CertChecked /\ ReachesExtensions
     /\ Cardinality(ExtsOf(attcert, FirstExamined)) > 1)
    => (cres.tag = "Err"
          /\ cres.err # "AttestationCertificateRequirementsNotMet")

\* C25: the lookup of an extension tells the extension that is there more
\* than once (an error) from the absent one (nothing), but the check
\* answers it with AttestationCertificateRequirementsNotMet, the error of
\* the extension that is absent though required and of the one that fails
\* its predicate.
C25_DuplicateSameError ==
  (CertChecked /\ ReachesExtensions)
    => LET oid == FirstExamined
           n == Cardinality(ExtsOf(attcert, oid))
           lookup == get_extension_unique(attcert, oid)
           notMet == cres.tag = "Err"
                       /\ cres.err = "AttestationCertificateRequirementsNotMet"
       IN /\ lookup.tag = "Err" <=> n > 1
          /\ lookup.tag = "None" <=> n = 0
          /\ n > 1 => notMet
          /\ (n = 0 /\ cpc = "tpm") => notMet
          /\ (n = 1 /\ cpc = "tpm" /\ ~TheExt(attcert, oid).critical) => notMet
          /\ (n = 1 /\ cpc = "packed" /\ TheExt(attcert, oid).critical) => notMet
          /\ (\E o \in ExaminedOids : Cardinality(ExtsOf(attcert, o)) > 1)
               => notMet

\* the TPM check has met a Subject Alternative Name extension that is
\* there twice, on a certificate with nothing else amiss
C25_Witness ==
  /\ cpc = "tpm"
  /\ attcert.parsable
  /\ TpmRequirementsBesidesSan(attcert)
  /\ Cardinality(ExtsOf(attcert, OID_X509_EXT_SUBJECT_ALT_NAME)) = 2
  /\ cres.tag = "Err"
  /\ cres.err = "AttestationCertificateRequirementsNotMet"

(***************************************************************************)
(* Properties of the relying party configuration and of the ceremonies.    *)
(***************************************************************************)
\* WebauthnBuilder::new has been called on cfg
NewCalled == bpc \in {"building", "failed", "built"}

\* rp_id is the host name of the url or a suffix of it that starts after
\* one of its dots
EffectiveDomainOf(id, url) ==
  /\ url.host_kind = "Domain"
  /\ \/ url.host = id
     \/ \E k \in 1..Len(url.host) :
          /\ url.host[k] = "."
          /\ SubSeq(url.host, k + 1, Len(url.host)) = id

\* C15: WebauthnBuilder::new(rp_id, rp_origin) returns a builder if and only
\* if rp_origin has a domain that equals rp_id or ends with "." followed by
\* rp_id; otherwise it returns WebauthnError::Configuration and no builder.
C15_NewChecksEffectiveDomain ==
  NewCalled
    => /\ EffectiveDomainOf(cfg.rp_id, cfg.rp_origin)
            => (bpc # "failed" /\ builder.rp_id = cfg.rp_id
                  /\ builder.allowed_origins[1] = cfg.rp_origin)
       /\ ~EffectiveDomainOf(cfg.rp_id, cfg.rp_origin)
            => (bpc = "failed" /\ bres.tag = "Err"
                  /\ bres.err = "Configuration" /\ builder = NoBuilder)

\* the origin myexample.com does not take the rp_id example.com
C15_Witness ==
  /\ cfg.rp_origin.host = <<"my", "example", ".", "com">>
  /\ cfg.rp_id = <<"example", ".", "com">>
  /\ bpc = "failed"
  /\ bres.err = "Configuration"

\* C16 as the spec states it: in every instance that build() returns, rp_id
\* is an effective-domain suffix of every allowed origin.
C16_SuffixOfEveryOrigin ==
  bpc = "built"
    => \A i \in 1..Len(wa.core.allowed_origins) :
         EffectiveDomainOf(wa.core.rp_id, wa.core.allowed_origins[i])

\* C16: in every instance that build() returns, rp_id is an effective-domain
\* suffix of the first allowed origin, which is the rp_origin given to new;
\* the allowed origins are that origin followed by the appended ones as they
\* were given, and build() has not reported an error.
C16_SuffixOfFirstOrigin ==
  bpc = "built"
    => /\ bres.tag = "Ok"
       /\ wa.core.rp_id = cfg.rp_id
       /\ wa.core.allowed_origins = builder.allowed_origins
       /\ Len(wa.core.allowed_origins) >= 1
       /\ wa.core.allowed_origins[1] = cfg.rp_origin
       /\ EffectiveDomainOf(wa.core.rp_id, wa.core.allowed_origins[1])
       /\ \A i \in 2..Len(wa.core.allowed_origins) :
            wa.core.allowed_origins[i] \in ExtraOrigins

\* an instance with rp_id example.com that allows https://app.other.org
C16_Witness ==
  /\ bpc = "built"
  /\ wa.core.rp_id = <<"example", ".", "com">>
  /\ Len(wa.core.allowed_origins) = 2
  /\ wa.core.allowed_origins[2].host = <<"app", ".", "other", ".", "org">>

\* the rp_name that the calls made on the builder ask for
ExpectedRpName == IF last_name = <<>> THEN cfg.rp_id ELSE last_name[1]

\* C17 as stated: new followed by build succeeds for every
\* origin whose host equals rp_id, whatever the scheme, and the instance's
\* rp_name is rp_id when no name was set and the last name set otherwise.
C17_HostEqualsRpIdSucceeds ==
  /\ (NewCalled /\ cfg.rp_origin.host_kind # "None"
        /\ cfg.rp_origin.host = cfg.rp_id) => bpc # "failed"
  /\ bpc = "built" => wa.core.rp_name = ExpectedRpName

\* C17: new followed by build succeeds for every origin whose host is a
\* domain name equal to rp_id, whatever the scheme (chrome-extension
\* included); the instance's rp_name is rp_id when no name was set and the
\* last name set otherwise.
C17_DomainEqualsRpIdSucceeds ==
  /\ (NewCalled /\ cfg.rp_origin.host_kind = "Domain"
        /\ cfg.rp_origin.host = cfg.rp_id)
       => /\ bpc \in {"building", "built"}
          /\ bres.tag = "Ok"
          /\ ENABLED Build \/ bpc = "built"
  /\ bpc = "built" => wa.core.rp_name = ExpectedRpName

\* the instance of test_webauthnbuilder_chrome_url
C17_Witness ==
  /\ bpc = "built"
  /\ cfg.rp_origin.scheme = "chrome-extension"
  /\ cfg.rp_id = ExtensionId
  /\ last_name = <<>>
  /\ wa.core.rp_name = ExtensionId

RegistrationFlows ==
  {"passkey_registration", "securitykey_registration",
   "attested_passkey_registration", "attested_resident_key_registration"}

\* C18: every builder and every built instance carries the default secure
\* algorithm list, which has no INSECURE_RS1 in it; no builder operation and
\* no ceremony changes it, and every start_*_registration that returns
\* offers exactly this list.
C18_SecureAlgorithms ==
  /\ \A i \in 1..Len(secure_algs) : secure_algs[i] # "INSECURE_RS1"
  /\ bpc \in {"building", "built"} => builder.algorithms = secure_algs
  /\ bpc = "built" => wa.algorithms = secure_algs
  /\ (offer.tag = "Ok" /\ offer.flow \in RegistrationFlows)
       => offer.credential_algorithms = secure_algs

\* a security key registration started after the builder was reconfigured
C18_Witness ==
  /\ bpc = "built"
  /\ Len(wa.core.allowed_origins) = 2
  /\ last_name # <<>>
  /\ offer.tag = "Ok"
  /\ offer.flow = "securitykey_registration"
  /\ offer.credential_algorithms = <<"ES256", "RS256">>

\* C19 as the spec states it: start_securitykey_registration with an empty
\* CA list behaves as with no list (attestation None, a challenge and a
\* state returned when the core returns them).
C19_EmptyListAsNoList ==
  (offer.flow = "securitykey_registration" /\ call.ca_list = SomeCaList({})
     /\ call.core = "Ok")
    => (offer.tag = "Ok" /\ offer.attestation = "None")

\* C19: a registration ceremony that is given an empty CA list fails with
\* MissingAttestationCaList, start_securitykey_registration included;
\* attestation is left out (preference None) only when
\* start_securitykey_registration is given no list, and a list that is not
\* empty asks for Direct attestation and is kept in the state.
C19_EmptyListRejected ==
  /\ (offer.flow \in {"securitykey_registration", "attested_passkey_registration",
                      "attested_resident_key_registration"}
        /\ call.ca_list = SomeCaList({}))
       => (offer.tag = "Err" /\ offer.err = "MissingAttestationCaList")
  /\ (offer.flow = "securitykey_registration" /\ ~call.ca_list.some
        /\ call.core = "Ok")
       => (offer.tag = "Ok" /\ offer.attestation = "None"
             /\ offer.ca_list = NoCaList)
  /\ (offer.flow \in {"securitykey_registration", "attested_passkey_registration",
                      "attested_resident_key_registration"}
        /\ call.ca_list.some /\ call.ca_list.cas # {} /\ call.core = "Ok")
       => (offer.tag = "Ok" /\ offer.attestation = "Direct"
             /\ offer.ca_list = call.ca_list)

\* start_securitykey_registration has refused an empty list
C19_Witness ==
  /\ offer.flow = "securitykey_registration"
  /\ call.ca_list = SomeCaList({})
  /\ call.core = "Ok"
  /\ offer.tag = "Err"
  /\ offer.err = "MissingAttestationCaList"

\* C20: the security key ceremonies ask for Discouraged when
\* user_presence_only_security_keys is set and for Preferred otherwise, and
\* the registration asks for credProtect only when it is not set; the
\* passkey, attested passkey and attested resident key ceremonies ask for
\* Required whatever the flag; without the danger feature the flag is false
\* in every built instance.
C20_UserVerificationPolicy ==
  /\ (offer.tag = "Ok" /\ offer.flow \in {"securitykey_registration",
                                          "securitykey_authentication"})
       => offer.policy = IF wa.user_presence_only_security_keys
                         THEN "Discouraged_DO_NOT_USE" ELSE "Preferred"
  /\ (offer.tag = "Ok" /\ offer.flow = "securitykey_registration")
       => (offer.cred_protect.some <=> ~wa.user_presence_only_security_keys)
  /\ (offer.tag = "Ok" /\ offer.flow \in
        {"passkey_registration", "passkey_authentication",
         "attested_passkey_registration", "attested_passkey_authentication",
         "attested_resident_key_registration",
         "attested_resident_key_authentication"})
       => offer.policy = "Required"
  /\ (bpc \in {"building", "built"} /\ ~cfg.danger)
       => (~builder.user_presence_only_security_keys
             /\ ~wa.user_presence_only_security_keys)

\* a security key authentication of an instance with the flag set
C20_Witness ==
  /\ bpc = "built"
  /\ cfg.danger
  /\ wa.user_presence_only_security_keys
  /\ offer.tag = "Ok"
  /\ offer.flow = "securitykey_authentication"
  /\ offer.policy = "Discouraged_DO_NOT_USE"


(***************************************************************************)
(* Properties of the ceremonies.                                           *)
(***************************************************************************)
RegFinishOps ==
  {"finish_passkey_registration", "finish_securitykey_registration",
   "finish_attested_passkey_registration",
   "finish_attested_resident_key_registration"}
FinishOps == RegFinishOps \cup AuthFinishOps
\* the finish_* that take the state by reference
BorrowingFinishOps == FinishOps \ {"finish_discoverable_authentication"}

\* C21 as stated: no ceremony state is accepted by a finish_* after a
\* finish_* has accepted it already.
C21_StateConsumedOnce ==
  ~(last.op \in FinishOps /\ last.res.tag = "Ok" /\ last.again)

\* C21: a finish_* that takes the state by reference leaves it with the
\* caller, live and carrying its challenge, whatever it answers; only
\* finish_discoverable_authentication, which takes the state by value,
\* removes it from the caller, and it alone never accepts a state that was
\* accepted before.
C21_OnlyMovedStateIsConsumed ==
  /\ last.op \in BorrowingFinishOps
       => (sessions[last.ch].live /\ sessions[last.ch].ch = last.ch)
  /\ last.op = "finish_discoverable_authentication"
       => (~sessions[last.ch].live /\ ~last.again)

\* a response is accepted against a state of start_passkey_authentication
\* that had been accepted before
C21_Witness ==
  /\ last.op = "finish_passkey_authentication"
  /\ last.res.tag = "Ok"
  /\ last.again
  /\ sessions[last.ch].live

\* a registration response answers the state s and chains to the trust
\* anchors, if there are any
RegAccepts(trust, s, rsp) ==
  /\ rsp.ch = s.ch
  /\ rsp.valid
  /\ trust.some => rsp.ca \in trust.cas

\* an authentication response answers the state s and its counter passes
\* against the credential creds
AuthAccepts(s, creds, rsp) ==
  /\ rsp.ch = s.ch
  /\ creds # <<>>
  /\ rsp.valid
  /\ (creds[1] > 0 \/ rsp.counter > 0) => rsp.counter > creds[1]

\* C22: no start_* and no finish_* changes the configuration of the built
\* instance, so get_allowed_origins returns the same list before and after
\* every step of interleaved ceremonies; a step touches no ceremony state
\* but its own, and what a finish_* answers is decided by the state and
\* the response (and, for finish_discoverable_authentication, the
\* credentials) it is called with.
C22_ConfigurationImmutable ==
  [][/\ wa' = wa
     /\ get_allowed_origins(wa') = get_allowed_origins(wa)
     /\ \A ch \in Challenges : sessions'[ch] # sessions[ch] => last'.ch = ch
     /\ (last' # last /\ last'.op \in FinishOps /\ ~last'.stored)
          => LET s == sessions[last'.ch]
                 trust == IF last'.op = "finish_passkey_registration"
                          THEN NoCaList ELSE s.st.ca_list
                 creds == IF last'.op = "finish_discoverable_authentication"
                          THEN <<counter>> ELSE s.creds
             IN last'.res.tag = "Ok"
                  <=> IF last'.op \in RegFinishOps
                      THEN RegAccepts(trust, s, last'.rsp)
                      ELSE AuthAccepts(s, creds, last'.rsp)]_vars

\* two ceremonies are under way on the instance, one has been accepted
\* and the other, a security key authentication, has just been answered,
\* while the caller's credential has moved on
C22_Witness ==
  /\ last.op = "finish_securitykey_authentication"
  /\ last.res.tag = "Ok"
  /\ \E ch \in Challenges \ {last.ch} : sessions[ch].live /\ ch \in accepted
  /\ sessions[last.ch].creds # <<counter>>
  /\ get_allowed_origins(wa) = builder.allowed_origins
  /\ wa = build(builder)

\* a step in which a finish_*_authentication answers
AuthFinishStep == last' # last /\ last'.op \in AuthFinishOps /\ ~last'.stored
\* a step in which the caller stores the counter of the result
UpdateStep == last'.stored /\ ~last.stored
\* the sign_count that the finish of this step is given for the credential
GivenCount ==
  IF last'.op = "finish_discoverable_authentication"
  THEN counter ELSE sessions[last'.ch].creds[1]

C26_X509KeyMatchesAlgorithm ==
  Converted =>
    /\ (input.alg \notin EsAlgs
          => (pc = "failed" /\ res.err = "COSEKeyInvalidType"))
    /\ (pc = "built"
          => /\ input.alg \in EsAlgs
             /\ key.type_ = input.alg
             /\ key.key.curve = ECDSACurveFromNid(input.cert.nid)
             /\ key.key.curve = CurveOfAlg(input.alg))

\* the certificate holds a point that the backend accepts on the curve that
\* belongs to the algorithm asked for
ValidPointForAlg ==
  /\ input.alg \in EsAlgs
  /\ input.cert.pk = "EC"
  /\ BackendEcKeyOk(input.cert.nid, input.cert.x, input.cert.y)
  /\ ECDSACurveFromNid(input.cert.nid) = CurveOfAlg(input.alg)

\* C29: COSEKey::try_from((alg, certificate)) succeeds for every certificate
\* whose key is a valid point of the curve that belongs to alg, also when a
\* coordinate written in coordinate_size(curve) bytes starts with zero bytes,
\* and the x and y of a returned key have exactly coordinate_size(curve) bytes.
C29_LeadingZeroPointConverts ==
  /\ (Converted /\ ValidPointForAlg) => pc = "built"
  /\ (Converted /\ pc = "built")
       => /\ key.key.x.len = coordinate_size(key.key.curve)
          /\ key.key.y.len = coordinate_size(key.key.curve)

(***************************************************************************)
(* Properties of the hash helper.                                          *)
(***************************************************************************)
\* the digest of message m under hash h, as a byte string
DigestOf(h, m) == [hash |-> h, msg |-> m]

\* C27: only_hash_from_type(alg, input) returns the digest of input under the
\* hash that belongs to alg for every algorithm but INSECURE_RS1 (SHA-256 for
\* ES256 and RS256), and fails with CredentialInsecureCryptography only for
\* INSECURE_RS1.
C27_HashOfInput ==
  pc = "hashed" =>
    /\ (input.alg = "INSECURE_RS1"
          <=> (raw.tag = "Err" /\ raw.err = "CredentialInsecureCryptography"))
    /\ (SchemeOfAlg(input.alg)[2] # ""
          => /\ raw.tag = "Ok"
             /\ raw.bytes = <<DigestOf(SchemeOfAlg(input.alg)[2], msg)>>)

(***************************************************************************)
(* The order of the checks of the CBOR decoder.                            *)
(***************************************************************************)
PairAllowed == HeadOk /\ <<InKty, InAlg>> \in AllowedPairs

\* the labels of the key type are present and of their type; for EC2 the
\* integer of label -1 is a curve id (the decoder converts it as soon as it
\* has read it)
LabelsWellTyped ==
  CASE InKty = EC_EC2 ->
         /\ input.d.n1.t = "int"
         /\ ECDSACurveTryFrom(input.d.n1.v) # "invalid"
         /\ input.d.n2.t = "bytes"
         /\ input.d.n3.t = "bytes"
    [] InKty = EC_RSA -> input.d.n1.t = "bytes" /\ input.d.n2.t = "bytes"
    [] InKty = EC_OKP -> input.d.n1.t = "int" /\ input.d.n2.t = "bytes"

LengthsOk ==
  CASE InKty = EC_EC2 ->
         /\ input.d.n2.v.len = coordinate_size(ECDSACurveTryFrom(input.d.n1.v))
         /\ input.d.n3.v.len = coordinate_size(ECDSACurveTryFrom(input.d.n1.v))
    [] InKty = EC_RSA -> input.d.n1.v.len = 256 /\ input.d.n2.v.len = 3
    [] InKty = EC_OKP -> input.d.n2.v.len = 32

LengthError ==
  CASE InKty = EC_EC2 -> "COSEKeyECDSAXYInvalid"
    [] InKty = EC_RSA -> "COSEKeyRSANEInvalid"
    [] InKty = EC_OKP -> "COSEKeyEDDSAXInvalid"

OkpCurveUnknown ==
  InKty = EC_OKP /\ EDDSACurveTryFrom(input.d.n1.v) = "invalid"

FailedWith(e) == pc = "failed" /\ res.err = e

\* C30: COSEKey::try_from(&CBOR value) checks in a fixed order and the first
\* failing check alone decides the error: the value is a map; label 1 is
\* present and an integer; label 3 is present and an integer; the algorithm id
\* is recognised (else COSEKeyInvalidAlgorithm, whatever the key type and the
\* other labels); the (key type, algorithm) pair is allowed (else
\* COSEKeyInvalidType, also when labels of the key type are missing); the
\* labels of the key type are present and well-typed; the lengths (for OKP the
\* length of x before the curve id is validated); the backend's validation
\* last.  No key is returned on a failure.
C30_CheckOrder ==
  Decoded =>
    /\ pc = "failed" => key = NoCose
    /\ input.d.t # "map" => FailedWith("COSEKeyInvalidCBORValue")
    /\ (DecodedMap /\ input.d.l1.t # "int")
         => FailedWith("COSEKeyInvalidCBORValue")
    /\ (DecodedMap /\ input.d.l1.t = "int" /\ input.d.l3.t # "int")
         => FailedWith("COSEKeyInvalidCBORValue")
    /\ (DecodedMap /\ input.d.l1.t = "int" /\ input.d.l3.t = "int"
          /\ COSEAlgorithmTryFrom(input.d.l3.v) = "invalid")
         => FailedWith("COSEKeyInvalidAlgorithm")
    /\ (HeadOk /\ ~PairAllowed) => FailedWith("COSEKeyInvalidType")
    /\ (PairAllowed /\ ~LabelsWellTyped)
         => /\ pc = "failed"
            /\ res.err \in {"COSEKeyInvalidCBORValue", "COSEKeyECDSAInvalidCurve"}
    /\ (PairAllowed /\ LabelsWellTyped /\ ~LengthsOk) => FailedWith(LengthError)
    /\ (PairAllowed /\ LabelsWellTyped /\ LengthsOk /\ OkpCurveUnknown)
         => FailedWith("COSEKeyEDDSAInvalidCurve")
    /\ (PairAllowed /\ LabelsWellTyped /\ LengthsOk /\ ~OkpCurveUnknown)
         => res.err \in {"", "OpenSSLError", "COSEKeyEDUnsupported"}
    /\ res.err \in {"OpenSSLError", "COSEKeyEDUnsupported"}
         => (PairAllowed /\ LabelsWellTyped /\ LengthsOk /\ ~OkpCurveUnknown)

\* an OKP map with an x of the wrong length and an unknown curve id has
\* failed on the length
C30_Witness ==
  /\ PairAllowed
  /\ InKty = EC_OKP
  /\ input.d.n1.t = "int" /\ EDDSACurveTryFrom(input.d.n1.v) = "invalid"
  /\ input.d.n2.t = "bytes" /\ input.d.n2.v.len # 32
  /\ res.err = "COSEKeyEDDSAXInvalid"

(***************************************************************************)
(* The trust anchors of a registration.                                    *)
(***************************************************************************)
\* the state that the last start_* returned
LastState == sessions[last.ch].st

StartedOk(op) == last.op = op /\ last.res.tag = "Ok"

\* what start_* and finish_* have done with the attestation CA list
TrustBoundAtStart ==
  /\ StartedOk("start_securitykey_registration")
       => /\ LastState.ca_list = last.given
          /\ LastState.attestation = "Direct"
               <=> (last.given.some /\ last.given.cas # {})
          /\ ~last.given.some => LastState.attestation = "None"
  /\ (last.op = "start_securitykey_registration"
        /\ last.given.some /\ last.given.cas = {})
       => last.res.tag = "Err"
  /\ StartedOk("start_attested_passkey_registration")
       => /\ LastState.attestation = "Direct"
          /\ LastState.ca_list = last.given
  /\ (last.op = "start_attested_passkey_registration" /\ last.given.cas = {})
       => /\ last.res.tag = "Err"
          /\ last.res.err = "MissingAttestationCaList"
          /\ last.ch = ""
  /\ last.op = "finish_securitykey_registration"
       => last.res.trust = LastState.ca_list
  /\ last.op = "finish_attested_passkey_registration"
       => last.res.trust = SomeCaList(LastState.ca_list.cas)
  /\ last.op = "finish_passkey_registration"
       => last.res.trust = NoCaList

\* a state that the caller holds keeps its CA list, and a start_* that fails
\* produces no state
StateKeepsCaList ==
  /\ \A ch \in Challenges :
       (sessions[ch].live /\ sessions'[ch].live)
         => sessions'[ch].st.ca_list = sessions[ch].st.ca_list
  /\ (last'.op \in {"start_securitykey_registration",
                    "start_attested_passkey_registration"}
        /\ last'.res.tag = "Err")
       => sessions' = sessions

\* C28: the trust anchors of a registration are bound at start and used
\* unchanged at finish.  start_securitykey_registration asks for attestation
\* Direct exactly when a non-empty CA list is supplied and for None when no
\* list is supplied; start_attested_passkey_registration always asks for
\* Direct and fails with MissingAttestationCaList on an empty list before any
\* challenge or state is made; the state holds the list supplied; the matching
\* finish_*_registration hands that stored list to the core, and
\* finish_passkey_registration hands it no trust anchors.
C28_TrustAnchorsBoundAtStart == [](TrustBoundAtStart) /\ [][StateKeepsCaList]_vars

\* a security key registration started with the list {ca1} has refused an
\* attestation that chains to ca2
C28_Witness ==
  /\ last.op = "finish_securitykey_registration"
  /\ LastState.ca_list = SomeCaList({"ca1"})
  /\ last.rsp.ca = "ca2"
  /\ last.res.err = "AttestationChainUnknown"

====
